---- MODULE Spec2Model ----
(***************************************************************************)
(* Dialogue engine of the voice coding assistant: the LangGraph workflow   *)
(* of src/langgraph_pipeline.py (nodes, routing functions, the interactive *)
(* loops inside the code_generation node) driven by the continuous session *)
(* loop.  Text is kept as strings and keyword tests are Python's substring *)
(* test `word in text`.                                                    *)
(***************************************************************************)
EXTENDS Integers, Sequences, FiniteSets, TLC

(***************************************************************************)
(* Bounds of the model.                                                    *)
(***************************************************************************)
\* tasks counted per workflow run (the counter saturates at this value)
MaxTasks == 2

(***************************************************************************)
(* Text helpers: str.lower, str.strip, str.split and `word in text`.       *)
(***************************************************************************)
\* str.lower on one character
UpperToLower ==
    ("A" :> "a") @@ ("B" :> "b") @@ ("C" :> "c") @@ ("D" :> "d") @@ ("E" :> "e") @@
    ("F" :> "f") @@ ("G" :> "g") @@ ("H" :> "h") @@ ("I" :> "i") @@ ("J" :> "j") @@
    ("K" :> "k") @@ ("L" :> "l") @@ ("M" :> "m") @@ ("N" :> "n") @@ ("O" :> "o") @@
    ("P" :> "p") @@ ("Q" :> "q") @@ ("R" :> "r") @@ ("S" :> "s") @@ ("T" :> "t") @@
    ("U" :> "u") @@ ("V" :> "v") @@ ("W" :> "w") @@ ("X" :> "x") @@ ("Y" :> "y") @@
    ("Z" :> "z")

CharAt(t, i) == SubSeq(t, i, i)

LowerChar(c) == IF c \in DOMAIN UpperToLower THEN UpperToLower[c] ELSE c

RECURSIVE Lower(_)
\* str.lower
Lower(t) ==
    IF \A i \in 1..Len(t) : CharAt(t, i) \notin DOMAIN UpperToLower THEN t
    ELSE IF Len(t) = 1 THEN LowerChar(t)
    ELSE Lower(SubSeq(t, 1, Len(t) \div 2)) \o Lower(SubSeq(t, (Len(t) \div 2) + 1, Len(t)))

RECURSIVE StripChars(_, _)
\* str.strip(chars): drop leading and trailing characters that are in chars
StripChars(t, chars) ==
    IF t = "" THEN ""
    ELSE IF \E i \in 1..Len(chars) : CharAt(chars, i) = Head(t)
         THEN StripChars(SubSeq(t, 2, Len(t)), chars)
    ELSE IF \E i \in 1..Len(chars) : CharAt(chars, i) = CharAt(t, Len(t))
         THEN StripChars(SubSeq(t, 1, Len(t) - 1), chars)
    ELSE t

\* str.strip()
Strip(t) == StripChars(t, " ")

\* Python `w in t` on strings
IsSub(w, t) == \E i \in 0..(Len(t) - Len(w)) : SubSeq(t, i + 1, i + Len(w)) = w

\* any(word in text for word in words)
AnyIn(words, t) == \E w \in words : IsSub(w, t)

RECURSIVE SplitFrom(_, _, _)
SplitFrom(t, cur, acc) ==
    IF t = "" THEN (IF cur = "" THEN acc ELSE Append(acc, cur))
    ELSE IF Head(t) = " "
         THEN SplitFrom(SubSeq(t, 2, Len(t)), "", IF cur = "" THEN acc ELSE Append(acc, cur))
         ELSE SplitFrom(SubSeq(t, 2, Len(t)), cur \o Head(t), acc)

\* str.split(): the whitespace-separated words of t
Split(t) == SplitFrom(t, "", <<>>)

RECURSIVE Join(_)
\* ' '.join(words)
Join(ws) == IF ws = <<>> THEN ""
            ELSE IF Len(ws) = 1 THEN ws[1]
            ELSE ws[1] \o " " \o Join(Tail(ws))

Range(s) == {s[i] : i \in 1..Len(s)}

(***************************************************************************)
(* Helper methods of LangGraphVoicePipeline (pure functions of text).      *)
(***************************************************************************)
\* _summarize_user_request
SummarizeUserRequest(request) ==
    LET r == Lower(request)
        words == Split(request)
        n == Len(words)
    IN  IF IsSub("write", r) /\ IsSub("function", r) THEN
            IF IsSub("hello world", r) THEN "write a function to print hello world"
            ELSE IF IsSub("print", r) THEN "write a function that prints something"
            ELSE "write a function"
        ELSE IF IsSub("create", r) /\ IsSub("function", r) THEN
            IF IsSub("hello world", r) THEN "create a hello world function"
            ELSE IF IsSub("print", r) THEN "create a function that prints something"
            ELSE "create a function"
        ELSE IF IsSub("print", r) /\ IsSub("hello world", r) THEN "create a function to print hello world"
        ELSE IF IsSub("create", r) /\ IsSub("class", r) THEN "create a class"
        ELSE IF IsSub("create", r) /\ IsSub("api", r) THEN "create an API"
        ELSE IF IsSub("build", r) THEN "build something"
        ELSE IF IsSub("make", r) THEN "make something"
        ELSE IF IsSub("generate", r) THEN "generate some code"
        ELSE IF IsSub("hello world", r) THEN "create a hello world program"
        ELSE IF IsSub("print", r) THEN "create something that prints"
        ELSE IF n > 8 THEN Join(SubSeq(words, 1, 4)) \o "... " \o words[n - 1] \o " " \o words[n]
        ELSE IF n > 5 THEN Join(SubSeq(words, 1, 3)) \o "... " \o words[n]
        ELSE request

\* a decomposition that has no todos for a request without a keyword
GenerateTodosOnlyForKeywords(request) ==
    LET r == Lower(request)
    IN  IF IsSub("function", r) THEN
            <<"Create the main function with proper parameters", "Implement the function logic">>
        ELSE IF IsSub("class", r) THEN
            <<"Define the class structure and constructor", "Implement class methods">>
        ELSE <<>>

\* _generate_todos_from_request
GenerateTodosFromRequest(request) ==
    LET r == Lower(request)
        first == "Create a new file with appropriate name and extension"
    IN  IF IsSub("function", r) THEN
            <<first, "Create the main function with proper parameters", "Implement the function logic">>
        ELSE IF IsSub("class", r) THEN
            <<first, "Define the class structure and constructor", "Implement class methods">>
        ELSE IF AnyIn({"api", "endpoint", "rest", "http"}, r) THEN
            <<first, "Set up the API framework", "Create the endpoint structure">>
        ELSE IF AnyIn({"database", "model", "schema", "table"}, r) THEN
            <<first, "Design the database schema", "Create the database model">>
        ELSE IF IsSub("test", r) THEN
            <<first, "Create test cases", "Implement test logic">>
        ELSE IF AnyIn({"web", "html", "css", "frontend"}, r) THEN
            <<first, "Create HTML structure", "Add CSS styling">>
        ELSE
            <<first, "Implement the requested functionality", "Add proper documentation and comments">>

\* requests that take each branch of _generate_todos_from_request, the
\* empty one among them
TodoRequests ==
    {"", "do it", "a function", "a class", "rest api", "database model", "unit test", "web page"}

\* the todo lists of these requests
TodoLists == {GenerateTodosFromRequest(r) : r \in TodoRequests}

\* _analyze_code_request, language part
AnalyzeLanguage(request) ==
    LET r == Lower(request)
    IN  IF AnyIn({"javascript", "js", "node", "react", "vue", "angular"}, r) THEN "javascript"
        ELSE IF AnyIn({"java", "spring", "maven", "gradle"}, r) THEN "java"
        ELSE IF AnyIn({"c++", "cpp", "c plus plus"}, r) THEN "cpp"
        ELSE IF AnyIn({"c#", "csharp", "dotnet", ".net"}, r) THEN "csharp"
        ELSE IF AnyIn({"go", "golang"}, r) THEN "go"
        ELSE IF AnyIn({"rust", "cargo"}, r) THEN "rust"
        ELSE IF AnyIn({"php", "laravel", "symfony"}, r) THEN "php"
        ELSE IF AnyIn({"ruby", "rails", "sinatra"}, r) THEN "ruby"
        ELSE IF AnyIn({"swift", "ios", "macos"}, r) THEN "swift"
        ELSE IF AnyIn({"kotlin", "android"}, r) THEN "kotlin"
        ELSE IF AnyIn({"typescript", "ts"}, r) THEN "typescript"
        ELSE IF AnyIn({"html", "css", "web", "frontend"}, r) THEN "html"
        ELSE IF AnyIn({"sql", "database", "query"}, r) THEN "sql"
        ELSE IF AnyIn({"bash", "shell", "script", "linux"}, r) THEN "bash"
        ELSE IF AnyIn({"powershell", "windows"}, r) THEN "powershell"
        ELSE IF AnyIn({"yaml", "yml", "config"}, r) THEN "yaml"
        ELSE IF AnyIn({"json", "api", "rest"}, r) THEN "json"
        ELSE IF AnyIn({"xml", "soap"}, r) THEN "xml"
        ELSE "python"

\* _analyze_code_request, task type part
AnalyzeTaskType(request) ==
    LET r == Lower(request)
    IN  IF AnyIn({"class", "object", "oop", "inheritance"}, r) THEN "class"
        ELSE IF AnyIn({"api", "endpoint", "rest", "http"}, r) THEN "api"
        ELSE IF AnyIn({"database", "model", "schema", "table"}, r) THEN "database"
        ELSE IF AnyIn({"test", "unit", "integration", "spec"}, r) THEN "test"
        ELSE IF AnyIn({"script", "automation", "tool"}, r) THEN "script"
        ELSE IF AnyIn({"web", "frontend", "ui", "component"}, r) THEN "frontend"
        ELSE IF AnyIn({"backend", "server", "service"}, r) THEN "backend"
        ELSE IF AnyIn({"algorithm", "data structure", "sort", "search"}, r) THEN "algorithm"
        ELSE IF AnyIn({"config", "configuration", "setup"}, r) THEN "config"
        ELSE "function"

\* _is_language_specified
IsLanguageSpecified(request) ==
    AnyIn({"python", "javascript", "js", "java", "c++", "cpp", "c#", "csharp", "go", "golang",
           "rust", "php", "ruby", "swift", "kotlin", "typescript", "ts", "html", "css",
           "sql", "bash", "shell", "powershell", "yaml", "yml", "json", "xml"}, Lower(request))

\* an extension table that falls back to py
GetFileExtensionDefaultsToPy(language) ==
    CASE language = "python" -> "py"
      [] language = "javascript" -> "js"
      [] language = "typescript" -> "ts"
      [] language = "java" -> "java"
      [] language = "c++" -> "cpp"
      [] language = "cpp" -> "cpp"
      [] language = "c#" -> "cs"
      [] language = "csharp" -> "cs"
      [] language = "go" -> "go"
      [] language = "rust" -> "rs"
      [] language = "php" -> "php"
      [] language = "ruby" -> "rb"
      [] language = "swift" -> "swift"
      [] language = "kotlin" -> "kt"
      [] language = "html" -> "html"
      [] language = "css" -> "css"
      [] language = "sql" -> "sql"
      [] language = "bash" -> "sh"
      [] language = "powershell" -> "ps1"
      [] language = "yaml" -> "yml"
      [] language = "json" -> "json"
      [] language = "xml" -> "xml"
      [] OTHER -> "py"

\* _get_file_extension
GetFileExtension(language) ==
    CASE language = "python" -> "py"
      [] language = "javascript" -> "js"
      [] language = "typescript" -> "ts"
      [] language = "java" -> "java"
      [] language = "c++" -> "cpp"
      [] language = "cpp" -> "cpp"
      [] language = "c#" -> "cs"
      [] language = "csharp" -> "cs"
      [] language = "go" -> "go"
      [] language = "rust" -> "rs"
      [] language = "php" -> "php"
      [] language = "ruby" -> "rb"
      [] language = "swift" -> "swift"
      [] language = "kotlin" -> "kt"
      [] language = "html" -> "html"
      [] language = "css" -> "css"
      [] language = "sql" -> "sql"
      [] language = "bash" -> "sh"
      [] language = "powershell" -> "ps1"
      [] language = "yaml" -> "yml"
      [] language = "json" -> "json"
      [] language = "xml" -> "xml"
      [] OTHER -> "txt"

\* _generate_smart_filename: the loop over the words of a request that
\* names a file ("filename X", "file X", "name X"); "" when it finds none
UserFilename(request) ==
    LET words == Split(request)
        hits == {i \in 1..(Len(words) - 1) :
                    /\ Lower(words[i]) \in {"filename", "file", "name"}
                    /\ StripChars(words[i + 1], ".,!?") # ""}
    IN  IF hits = {} THEN ""
        ELSE StripChars(words[(CHOOSE i \in hits : \A j \in hits : i <= j) + 1], ".,!?")

\* _generate_smart_filename: the default name of a language
DefaultFilename(language) ==
    CASE language \in {"java", "kotlin"} -> "Main"
      [] language \in {"php", "html"} -> "index"
      [] language = "css" -> "styles"
      [] language = "sql" -> "database"
      [] language \in {"bash", "powershell"} -> "script"
      [] language = "yaml" -> "config"
      [] language \in {"json", "xml"} -> "data"
      [] OTHER -> "main"

\* _generate_smart_filename: the name derived from the content of the request
ContentFilename(request, language) ==
    LET r == Lower(request)
    IN  IF IsSub("hello world", r) \/ IsSub("print hello", r) THEN "hello_world"
        ELSE IF IsSub("function", r) THEN "main_function"
        ELSE IF IsSub("class", r) THEN "main_class"
        ELSE IF IsSub("api", r) THEN "api_server"
        ELSE IF IsSub("database", r) THEN "database_model"
        ELSE IF IsSub("test", r) THEN "test_file"
        ELSE IF IsSub("script", r) THEN "script"
        ELSE IF IsSub("web", r) \/ IsSub("html", r) THEN "index"
        ELSE IF IsSub("css", r) THEN "styles"
        ELSE IF IsSub("javascript", r) \/ IsSub("js", r) THEN "main"
        ELSE IF IsSub("java", r) THEN "Main"
        ELSE IF IsSub("c++", r) \/ IsSub("cpp", r) THEN "main"
        ELSE IF IsSub("go", r) THEN "main"
        ELSE IF IsSub("rust", r) THEN "main"
        ELSE IF IsSub("php", r) THEN "index"
        ELSE IF IsSub("ruby", r) THEN "main"
        ELSE IF IsSub("swift", r) THEN "main"
        ELSE IF IsSub("kotlin", r) THEN "Main"
        ELSE IF IsSub("sql", r) THEN "database_schema"
        ELSE IF IsSub("bash", r) \/ IsSub("shell", r) THEN "script"
        ELSE IF IsSub("powershell", r) THEN "script"
        ELSE IF IsSub("yaml", r) \/ IsSub("yml", r) THEN "config"
        ELSE IF IsSub("json", r) THEN "data"
        ELSE IF IsSub("xml", r) THEN "data"
        ELSE DefaultFilename(language)

\* _generate_smart_filename: the names its content and default branches return
ContentNames ==
    {"hello_world", "main_function", "main_class", "api_server", "database_model", "test_file",
     "script", "index", "styles", "main", "Main", "database_schema", "config", "data", "database"}

\* _generate_smart_filename
GenerateSmartFilename(request, language) ==
    LET r == Lower(request)
    IN  IF (IsSub("filename", r) \/ IsSub("file name", r)) /\ UserFilename(request) # ""
        THEN UserFilename(request)
        ELSE ContentFilename(request, language)

\* _update_todo_based_on_feedback
UpdateTodoBasedOnFeedback(current_todo, feedback) ==
    LET f == Lower(feedback)
    IN  IF IsSub("java", f) THEN "Create a Java function: " \o feedback
        ELSE IF IsSub("javascript", f) \/ IsSub("js", f) THEN "Create a JavaScript function: " \o feedback
        ELSE IF IsSub("python", f) THEN "Create a Python function: " \o feedback
        ELSE IF IsSub("c++", f) \/ IsSub("cpp", f) THEN "Create a C++ function: " \o feedback
        ELSE IF IsSub("go", f) THEN "Create a Go function: " \o feedback
        ELSE IF IsSub("rust", f) THEN "Create a Rust function: " \o feedback
        ELSE IF IsSub("php", f) THEN "Create a PHP function: " \o feedback
        ELSE IF IsSub("ruby", f) THEN "Create a Ruby function: " \o feedback
        ELSE IF IsSub("swift", f) THEN "Create a Swift function: " \o feedback
        ELSE IF IsSub("kotlin", f) THEN "Create a Kotlin function: " \o feedback
        ELSE IF IsSub("typescript", f) \/ IsSub("ts", f) THEN "Create a TypeScript function: " \o feedback
        ELSE IF IsSub("html", f) THEN "Create an HTML page: " \o feedback
        ELSE IF IsSub("css", f) THEN "Create CSS styles: " \o feedback
        ELSE IF IsSub("sql", f) THEN "Create SQL queries: " \o feedback
        ELSE IF IsSub("bash", f) \/ IsSub("shell", f) THEN "Create a Bash script: " \o feedback
        ELSE IF IsSub("powershell", f) THEN "Create a PowerShell script: " \o feedback
        ELSE IF IsSub("different", f) \/ IsSub("something else", f) THEN "Modified task based on your feedback: " \o feedback
        ELSE IF IsSub("change", f) THEN "Updated task: " \o feedback
        ELSE "Revised task: " \o feedback

(***************************************************************************)
(* Code templates of the _generate_<language>_code methods: the text each  *)
(* returns for a request and a todo list.                                  *)
(***************************************************************************)
RECURSIVE TodoText(_, _, _)
\* "\n".join([f"{prefix}{todo}{suffix}" for todo in todos])
TodoText(prefix, suffix, todos) ==
    IF todos = <<>> THEN ""
    ELSE IF Len(todos) = 1 THEN prefix \o todos[1] \o suffix
    ELSE prefix \o todos[1] \o suffix \o "\n" \o TodoText(prefix, suffix, Tail(todos))

TemplatePythonClass(request, todos) ==
    "# Generated Python class for: "
    \o request
    \o "\n"
    \o TodoText("# - ", "", todos)
    \o "\n"
    \o "\n"
    \o "class GeneratedClass:\n"
    \o "    def __init__(self):\n"
    \o "        \"\"\"Initialize the class\"\"\"\n"
    \o "        pass\n"
    \o "    \n"
    \o "    def main_method(self):\n"
    \o "        \"\"\"Main method implementation\"\"\"\n"
    \o "        pass\n"
    \o "\n"
    \o "if __name__ == '__main__':\n"
    \o "    obj = GeneratedClass()\n"
    \o "    obj.main_method()\n"

TemplatePythonApi(request, todos) ==
    "# Generated Python API for: "
    \o request
    \o "\n"
    \o TodoText("# - ", "", todos)
    \o "\n"
    \o "\n"
    \o "from flask import Flask, request, jsonify\n"
    \o "\n"
    \o "app = Flask(__name__)\n"
    \o "\n"
    \o "@app.route('/api/endpoint', methods=['GET', 'POST'])\n"
    \o "def api_endpoint():\n"
    \o "    \"\"\"API endpoint implementation\"\"\"\n"
    \o "    return jsonify({\"message\": \"API response\"})\n"
    \o "\n"
    \o "if __name__ == '__main__':\n"
    \o "    app.run(debug=True)\n"

TemplatePythonHello(request, todos) ==
    "# Generated Python function for: "
    \o request
    \o "\n"
    \o TodoText("# - ", "", todos)
    \o "\n"
    \o "\n"
    \o "def print_hello_world():\n"
    \o "    \"\"\"Function to print hello world\"\"\"\n"
    \o "    print(\"Hello, World!\")\n"
    \o "\n"
    \o "def main():\n"
    \o "    \"\"\"Main function to run the hello world function\"\"\"\n"
    \o "    print_hello_world()\n"
    \o "\n"
    \o "if __name__ == '__main__':\n"
    \o "    main()\n"

TemplatePythonFunction(request, todos) ==
    "# Generated Python function for: "
    \o request
    \o "\n"
    \o TodoText("# - ", "", todos)
    \o "\n"
    \o "\n"
    \o "def main():\n"
    \o "    \"\"\"Main function implementation\"\"\"\n"
    \o "    # Add your code here\n"
    \o "    pass\n"
    \o "\n"
    \o "if __name__ == '__main__':\n"
    \o "    main()\n"

TemplatePythonOther(request, todos) ==
    "# Generated Python code for: "
    \o request
    \o "\n"
    \o TodoText("# - ", "", todos)
    \o "\n"
    \o "\n"
    \o "def main():\n"
    \o "    \"\"\"Main function implementation\"\"\"\n"
    \o "    # Add your code here\n"
    \o "    pass\n"
    \o "\n"
    \o "if __name__ == '__main__':\n"
    \o "    main()\n"

TemplateJavascriptClass(request, todos) ==
    "// Generated JavaScript class for: "
    \o request
    \o "\n"
    \o TodoText("// - ", "", todos)
    \o "\n"
    \o "\n"
    \o "class GeneratedClass {\n"
    \o "    constructor() {\n"
    \o "        // Constructor implementation\n"
    \o "    }\n"
    \o "    \n"
    \o "    mainMethod() {\n"
    \o "        // Main method implementation\n"
    \o "    }\n"
    \o "}\n"
    \o "\n"
    \o "// Usage\n"
    \o "const obj = new GeneratedClass();\n"
    \o "obj.mainMethod();\n"

TemplateJavascriptApi(request, todos) ==
    "// Generated JavaScript API for: "
    \o request
    \o "\n"
    \o TodoText("// - ", "", todos)
    \o "\n"
    \o "\n"
    \o "const express = require('express');\n"
    \o "const app = express();\n"
    \o "\n"
    \o "app.get('/api/endpoint', (req, res) => {\n"
    \o "    res.json({ message: 'API response' });\n"
    \o "});\n"
    \o "\n"
    \o "app.listen(3000, () => {\n"
    \o "    console.log('Server running on port 3000');\n"
    \o "});\n"

TemplateJavascriptHello(request, todos) ==
    "// Generated JavaScript function for: "
    \o request
    \o "\n"
    \o TodoText("// - ", "", todos)
    \o "\n"
    \o "\n"
    \o "function printHelloWorld() {\n"
    \o "    console.log(\"Hello, World!\");\n"
    \o "}\n"
    \o "\n"
    \o "function main() {\n"
    \o "    printHelloWorld();\n"
    \o "}\n"
    \o "\n"
    \o "main();\n"

TemplateJavascriptFunction(request, todos) ==
    "// Generated JavaScript function for: "
    \o request
    \o "\n"
    \o TodoText("// - ", "", todos)
    \o "\n"
    \o "\n"
    \o "function main() {\n"
    \o "    // Main function implementation\n"
    \o "}\n"
    \o "\n"
    \o "main();\n"

TemplateJavascriptOther(request, todos) ==
    "// Generated JavaScript code for: "
    \o request
    \o "\n"
    \o TodoText("// - ", "", todos)
    \o "\n"
    \o "\n"
    \o "function main() {\n"
    \o "    // Main function implementation\n"
    \o "}\n"
    \o "\n"
    \o "main();\n"

TemplateJavaHello(request, todos) ==
    "// Generated Java code for: "
    \o request
    \o "\n"
    \o TodoText("    // - ", "", todos)
    \o "\n"
    \o "\n"
    \o "public class HelloWorld {\n"
    \o "    public static void printHelloWorld() {\n"
    \o "        System.out.println(\"Hello, World!\");\n"
    \o "    }\n"
    \o "\n"
    \o "    public static void main(String[] args) {\n"
    \o "        printHelloWorld();\n"
    \o "    }\n"
    \o "}\n"

TemplateJavaFunction(request, todos) ==
    "// Generated Java code for: "
    \o request
    \o "\n"
    \o TodoText("    // - ", "", todos)
    \o "\n"
    \o "\n"
    \o "public class Main {\n"
    \o "    public static void main(String[] args) {\n"
    \o "        // Main method implementation\n"
    \o "    }\n"
    \o "}\n"

TemplateJavaOther(request, todos) ==
    "// Generated Java code for: "
    \o request
    \o "\n"
    \o TodoText("    // - ", "", todos)
    \o "\n"
    \o "\n"
    \o "public class GeneratedClass {\n"
    \o "    public static void main(String[] args) {\n"
    \o "        // Main method implementation\n"
    \o "    }\n"
    \o "}\n"

TemplateCppHello(request, todos) ==
    "// Generated C++ code for: "
    \o request
    \o "\n"
    \o TodoText("    // - ", "", todos)
    \o "\n"
    \o "\n"
    \o "#include <iostream>\n"
    \o "\n"
    \o "void printHelloWorld() {\n"
    \o "    std::cout << \"Hello, World!\" << std::endl;\n"
    \o "}\n"
    \o "\n"
    \o "int main() {\n"
    \o "    printHelloWorld();\n"
    \o "    return 0;\n"
    \o "}\n"

TemplateCppFunction(request, todos) ==
    "// Generated C++ code for: "
    \o request
    \o "\n"
    \o TodoText("    // - ", "", todos)
    \o "\n"
    \o "\n"
    \o "#include <iostream>\n"
    \o "\n"
    \o "int main() {\n"
    \o "    // Main function implementation\n"
    \o "    return 0;\n"
    \o "}\n"

TemplateCppOther(request, todos) ==
    "// Generated C++ code for: "
    \o request
    \o "\n"
    \o TodoText("    // - ", "", todos)
    \o "\n"
    \o "\n"
    \o "#include <iostream>\n"
    \o "\n"
    \o "int main() {\n"
    \o "    // Main function implementation\n"
    \o "    return 0;\n"
    \o "}\n"

TemplateHtmlOnly(request, todos) ==
    "<!DOCTYPE html>\n"
    \o "<html lang=\"en\">\n"
    \o "<head>\n"
    \o "    <meta charset=\"UTF-8\">\n"
    \o "    <meta name=\"viewport\" content=\"width=device-width, initial-scale=1.0\">\n"
    \o "    <title>Generated Page</title>\n"
    \o "</head>\n"
    \o "<body>\n"
    \o TodoText("    <!-- - ", " -->", todos)
    \o "\n"
    \o "    <h1>Generated HTML for: "
    \o request
    \o "</h1>\n"
    \o "    <script>\n"
    \o "        // JavaScript implementation\n"
    \o "    </script>\n"
    \o "</body>\n"
    \o "</html>\n"

TemplateSqlOnly(request, todos) ==
    "-- Generated SQL for: "
    \o request
    \o "\n"
    \o TodoText("-- - ", "", todos)
    \o "\n"
    \o "\n"
    \o "-- Main SQL implementation\n"
    \o "SELECT * FROM table_name WHERE condition = 'value';\n"

TemplateBashOnly(request, todos) ==
    "#!/bin/bash\n"
    \o "# Generated Bash script for: "
    \o request
    \o "\n"
    \o TodoText("# - ", "", todos)
    \o "\n"
    \o "\n"
    \o "# Main script implementation\n"
    \o "echo \"Script executed successfully\"\n"

\* the test on the request shared by the templates
MentionsHello(request) == IsSub("hello world", Lower(request)) \/ IsSub("print hello", Lower(request))

\* a Python generator without the hello-world template
GeneratePythonCodeWithoutHello(request, todos, task_type) ==
    IF task_type = "class" THEN TemplatePythonClass(request, todos)
    ELSE IF task_type = "api" THEN TemplatePythonApi(request, todos)
    ELSE IF IsSub("function", Lower(request)) THEN TemplatePythonFunction(request, todos)
    ELSE TemplatePythonOther(request, todos)

\* _generate_python_code
GeneratePythonCode(request, todos, task_type) ==
    IF task_type = "class" THEN TemplatePythonClass(request, todos)
    ELSE IF task_type = "api" THEN TemplatePythonApi(request, todos)
    ELSE IF MentionsHello(request) THEN TemplatePythonHello(request, todos)
    ELSE IF IsSub("function", Lower(request)) THEN TemplatePythonFunction(request, todos)
    ELSE TemplatePythonOther(request, todos)

\* _generate_javascript_code
GenerateJavascriptCode(request, todos, task_type) ==
    IF task_type = "class" THEN TemplateJavascriptClass(request, todos)
    ELSE IF task_type = "api" THEN TemplateJavascriptApi(request, todos)
    ELSE IF MentionsHello(request) THEN TemplateJavascriptHello(request, todos)
    ELSE IF IsSub("function", Lower(request)) THEN TemplateJavascriptFunction(request, todos)
    ELSE TemplateJavascriptOther(request, todos)

\* _generate_java_code
GenerateJavaCode(request, todos, task_type) ==
    IF MentionsHello(request) THEN TemplateJavaHello(request, todos)
    ELSE IF IsSub("function", Lower(request)) THEN TemplateJavaFunction(request, todos)
    ELSE TemplateJavaOther(request, todos)

\* _generate_cpp_code
GenerateCppCode(request, todos, task_type) ==
    IF MentionsHello(request) THEN TemplateCppHello(request, todos)
    ELSE IF IsSub("function", Lower(request)) THEN TemplateCppFunction(request, todos)
    ELSE TemplateCppOther(request, todos)

\* _generate_universal_code: dispatch on the language, Python for the rest
GenerateUniversalCode(request, todos, language, task_type) ==
    IF language = "python" THEN GeneratePythonCode(request, todos, task_type)
    ELSE IF language = "javascript" THEN GenerateJavascriptCode(request, todos, task_type)
    ELSE IF language = "java" THEN GenerateJavaCode(request, todos, task_type)
    ELSE IF language = "c++" \/ language = "cpp" THEN GenerateCppCode(request, todos, task_type)
    ELSE IF language = "html" THEN TemplateHtmlOnly(request, todos)
    ELSE IF language = "sql" THEN TemplateSqlOnly(request, todos)
    ELSE IF language = "bash" THEN TemplateBashOnly(request, todos)
    ELSE GeneratePythonCode(request, todos, task_type)

\* the keys of the extensions table of _get_file_extension
LanguageKeys ==
    {"python", "javascript", "typescript", "java", "c++", "cpp", "c#", "csharp", "go", "rust", "php",
     "ruby", "swift", "kotlin", "html", "css", "sql", "bash", "powershell", "yaml", "json", "xml"}

\* _improve_code_with_feedback
ImproveCodeWithFeedback(code, feedback) ==
    "# Improved based on feedback: " \o feedback \o "\n" \o code

\* keyword in text.lower(), lowering one window of the text at a time
IsSubLower(k, t) == \E i \in 0..(Len(t) - Len(k)) : Lower(SubSeq(t, i + 1, i + Len(k))) = k

\* _check_todo_completion: the todos with a word that occurs in the code
CheckTodoCompletion(todos, code) ==
    SelectSeq(todos, LAMBDA todo : \E k \in Range(Split(Lower(todo))) : IsSubLower(k, code))

(***************************************************************************)
(* The texts handed to the speech synthesizer.                             *)
(***************************************************************************)
Digits == "0123456789"
\* str(n) of a small natural number
ToStr(n) == IF n < 10 THEN CharAt(Digits, n + 1)
            ELSE CharAt(Digits, (n \div 10) + 1) \o CharAt(Digits, (n % 10) + 1)

\* prompts.py CODERABBIT_START_MESSAGE
CODERABBIT_START_MESSAGE ==
    "Um, let me review your code using CodeRabbit. This might take a moment..."
\* text spoken at langgraph_pipeline.py:342
ConfirmationMsg(summary) ==
    "Um, so you want me to " \o summary \o ", right?"
\* text spoken at langgraph_pipeline.py:362
MsgConfirmed ==
    "Great! Um, let me get started on that for you."
\* text spoken at langgraph_pipeline.py:368
SorryMsg ==
    "Oh, um, I'm sorry about that. Could you please say it again?"
\* text spoken at langgraph_pipeline.py:378
MsgAssumeConfirmed ==
    "Um, I'll assume that's correct and continue."
\* text spoken at langgraph_pipeline.py:401
MsgAskNewRequest ==
    "What would you like me to help you with?"
\* text spoken at langgraph_pipeline.py:420
MsgNoNewRequest ==
    "I didn't catch that. Just say 'Blueberry' whenever you need help. Goodbye!"
\* text spoken at langgraph_pipeline.py:496
MsgAskLanguage ==
    "Um, I need to know which programming language you'd like me to use. I support Python, JavaScript, Java, C++, C#, Go, Rust, PHP, Ruby, Swift, Kotlin, TypeScript, HTML, CSS, SQL, Bash, PowerShell, YAML, JSON, and XML. Which one would you prefer?"
\* text spoken at langgraph_pipeline.py:518
MsgLanguageChosen(language) ==
    "Um, great! I'll use " \o language \o " for this task. Is that correct?"
\* text spoken at langgraph_pipeline.py:529
MsgLanguageInstead ==
    "Um, no problem! What language would you prefer instead?"
\* text spoken at langgraph_pipeline.py:533
MsgLanguageClarify ==
    "Um, I'm not sure if that's correct. Could you please say 'yes' or 'no'?"
\* text spoken at langgraph_pipeline.py:540
MsgLanguageDefault ==
    "Um, I'll use Python as the default language."
\* text spoken at langgraph_pipeline.py:561
MsgDiscuss(current_todo, language, task_type) ==
    "Um, hey! I'm working on " \o current_todo \o ". I'll create a " \o language \o " " \o task_type \o " for you. What do you think?"
\* text spoken at langgraph_pipeline.py:583
MsgLanguageOptionsInstead ==
    "Um, I support many programming languages! I can work with Python, JavaScript, Java, C++, C#, Go, Rust, PHP, Ruby, Swift, Kotlin, TypeScript, HTML, CSS, SQL, Bash, PowerShell, YAML, JSON, and XML. Which one would you like to use instead?"
\* text spoken at langgraph_pipeline.py:585
MsgAskChange ==
    "Oh, um, no problem! What would you like me to change or do differently?"
\* text spoken at langgraph_pipeline.py:606
MsgGotIt(current_todo, language) ==
    "Um, got it! I'll work on " \o current_todo \o " using " \o language \o ". Let's continue."
\* text spoken at langgraph_pipeline.py:610
MsgChangeNotCaught ==
    "Um, hmm, I didn't catch that. Could you please tell me what you'd like me to change?"
\* text spoken at langgraph_pipeline.py:615
MsgPause ==
    "Um, sure! I'll wait. What would you like me to do?"
\* text spoken at langgraph_pipeline.py:624
MsgLanguageOptions ==
    "Um, I support many programming languages! I can work with Python, JavaScript, Java, C++, C#, Go, Rust, PHP, Ruby, Swift, Kotlin, TypeScript, HTML, CSS, SQL, Bash, PowerShell, YAML, JSON, and XML. Which one would you like to use?"
\* text spoken at langgraph_pipeline.py:626
MsgHelp(current_todo, language) ==
    "Um, I'm here to help! I'm working on " \o current_todo \o " using " \o language \o ". What would you like me to explain or help you with?"
\* text spoken at langgraph_pipeline.py:642
MsgDiscussClarify ==
    "Um, hmm, I'm not sure what you mean. Could you please say 'yes' to continue, 'no' to change something, or 'help' if you need assistance?"
\* text spoken at langgraph_pipeline.py:647
MsgStillThere ==
    "Um, are you still there? Should I continue with the current task?"
\* text spoken at langgraph_pipeline.py:738
MsgCodeSaved(language, current_todo, code_file_path) ==
    "Um, perfect! I've created the " \o language \o " code for " \o current_todo \o ". It's saved as " \o code_file_path \o ". Ready for the next task?"
\* text spoken at langgraph_pipeline.py:823
MsgPlan(n, first_todo) ==
    "Great! I've created a plan with " \o ToStr(n) \o " tasks. Let's start with the first one: " \o first_todo \o ". Should I proceed with this?"
\* text spoken at langgraph_pipeline.py:859
MsgReviewFailed ==
    "Rate limit exceeded error"
\* prompts.py:307
CODERABBIT_RATE_LIMIT_MESSAGE ==
    "Um, sorry, I've hit the rate limit. Hmm, please wait a few minutes and try again."
\* prompts.py:309
CODERABBIT_TIMEOUT_MESSAGE ==
    "Um, the review is taking longer than expected. Hmm, please try again in a moment."
\* text spoken at langgraph_pipeline.py:891
FeedbackPrompt ==
    "Please review the generated code and provide your feedback. What would you like me to change or improve?"
\* text spoken at langgraph_pipeline.py:978
MsgAllTodosDone ==
    "Excellent! We've completed all the tasks together. Great collaboration!"
\* text spoken at langgraph_pipeline.py:988
MsgTodosRemain(remaining, next_todo) ==
    "We still have " \o ToStr(remaining) \o " tasks to complete. The next one is: " \o next_todo \o ". Should we continue?"
\* text spoken at langgraph_pipeline.py:991
MsgTodosProcessed ==
    "We've worked through all the tasks. Would you like me to review or refine anything?"
\* text spoken at langgraph_pipeline.py:1019
MsgTaskCompleted ==
    "Task completed successfully!"
\* text spoken at langgraph_pipeline.py:1032
MsgAnythingElse ==
    "Is there anything else you'd like me to help you with?"
\* text spoken at langgraph_pipeline.py:1044
MsgNextTask ==
    "Great! What would you like me to help you with next?"
\* text spoken at langgraph_pipeline.py:1073
MsgSessionEnd ==
    "Perfect! I'm here whenever you need help. Just say 'Blueberry' to start a new session."
\* text spoken at langgraph_pipeline.py:1128
MsgNothingHeard ==
    "I didn't hear anything. I'm here whenever you need help. Just say 'Blueberry' to start a new session."
\* _generate_coding_response
GenerateCodingResponse(code, todos) ==
    "I've generated the code with " \o ToStr(Len(todos)) \o " tasks implemented. The code has been saved and is ready for use."
\* _generate_explanation_response
GenerateExplanationResponse(explanation) ==
    "Here's the explanation: " \o explanation
\* _generate_review_response
GenerateReviewResponse(review) ==
    "Here's my code review: " \o review

\* what the user may say when asked what to do
Requests ==
    {"create a function to print hello world", "review my code", "write a java class"}

\* what the user may say when asked a question
Answers == {"Yes", "yeah", "correct", "no", "wrong", "maybe", "help", "wait"}

\* what the user may say when asked for a language
LanguageAnswers == {"use go"}

\* _extract_language_from_response asks a language model: any valid language
DetectedLanguages == {"python", "go"}

\* outcome of CodeRabbitAgent.review_current_directory
ReviewStatuses == {"completed", "rate_limited", "timeout", "error"}
ReviewOutput == "Review completed: 2 suggestions"
ReviewSummary == "Um, the review found two small issues."

\* END of langgraph.graph
END == "END"

\* the workflow run was left by an exception: workflow.invoke raises
\* KeyError when a router returns a name that its path map does not hold
Escaped == "ESCAPED"

\* the keys of the path map of the conditional edges after confirmation
ConfirmationEdges == {"voice_input", "intent_classification"}

\* the node a conditional edge leads to
Route(destination, path_map) ==
    IF destination \in path_map THEN destination ELSE Escaped

\* STTAgent.run on a text that names no audio file returns the text
SttRun(input_data) == input_data

(***************************************************************************)
(* State.                                                                  *)
(***************************************************************************)
VARIABLES
    state,        \* VoiceCodingState of the running workflow
    node,         \* the node the workflow executes next, or END
    pc,           \* position inside the code_generation node ("" outside)
    current_todo, \* local of the discussion loops
    language,     \* local of the discussion loops
    task_type,    \* local of the discussion loops
    todo_index,   \* local current_todo_index of the discussion loops
    todo_asked,   \* indexes i whose key todo_asked_i is set in the node's state dict
    heard,        \* what the last step of a node captured, "" if it captured nothing
    log,          \* history of the run: what was spoken and when
    process,      \* the operating-system process: environment, agents, exit
    agent_call    \* a call of an agent's run method: the service's answer and the value returned

vars == <<state, node, pc, current_todo, language, task_type, todo_index, todo_asked, heard, log, process, agent_call>>

\* initial_state of start_continuous_session
InitialState ==
    [wake_word_detected |-> FALSE,
     voice_input |-> "",
     transcribed_text |-> "",
     user_confirmed |-> FALSE,
     confirmation_status |-> "",
     confirmation_spoken |-> FALSE,
     current_step |-> "wake_word_detection",
     pipeline_status |-> "active",
     error_message |-> "",
     user_intent |-> "",
     generated_todos |-> <<>>,
     todos_completed |-> FALSE,
     generated_code |-> "",
     code_file_path |-> "",
     code_explanation |-> "",
     code_review |-> "",
     review_score |-> 0,
     user_feedback |-> "",
     feedback_processed |-> FALSE,
     iteration_count |-> 0,
     max_iterations |-> 3,
     final_response |-> "",
     interaction_count |-> 0,
     current_todo_index |-> 0]

\* history of one workflow run
EmptyLog ==
    [said |-> {},          \* texts the executing node handed to the synthesizer,
                           \* until one is repeated
     dup |-> FALSE,        \* a node handed the same text to the synthesizer twice
     fresh |-> {},         \* texts spoken since the last captured utterance,
                           \* until one is repeated
     dupFresh |-> FALSE,   \* a text was repeated with no utterance in between
     pending |-> <<>>,     \* texts spoken since the last capture, in order
     seen |-> {},          \* <<node, state>> of the nodes executed since the last
                           \* captured utterance, until one is repeated
     cycle |-> FALSE,      \* a node was executed again in the same state with
                           \* no utterance in between
     tasks |-> 0,          \* times the user accepted more help (saturating)
     raised |-> "",        \* text of the exception the executing node caught,
                           \* "" if it caught none
     unspoken |-> FALSE,   \* a node recorded an error and nothing was spoken since
     interrupted |-> FALSE, \* the user has pressed Ctrl+C and no node has gone
                           \* on since
     temp_files |-> 0,     \* temporary files created and not deleted
     captured |-> "",      \* what voice_input captured, kept until confirmation
                           \* is executed
     wrote |-> ""]         \* path of the last write of code, until the next node
                           \* is entered; "" if none

\* one event of a node: <<"say", text>>, <<"hear", reply>>, <<"raise", text>>
\* when a call in the node raises, <<"error", text>> when the node records
\* an error without an exception or, when the node is entered,
\* <<"enter", <<node, state>>>>
LogEvent(l, e) ==
    IF e[1] = "say"
    THEN LET dup == l.dup \/ e[2] \in l.said
             dupFresh == l.dupFresh \/ e[2] \in l.fresh
         IN  [l EXCEPT !.said = IF dup THEN {} ELSE @ \cup {e[2]},
                       !.dup = dup,
                       !.fresh = IF dupFresh THEN {} ELSE @ \cup {e[2]},
                       !.dupFresh = dupFresh,
                       !.pending = Append(@, e[2]),
                       !.unspoken = FALSE]
    ELSE IF e[1] = "hear"
    THEN [l EXCEPT !.fresh = IF e[2] = "" THEN @ ELSE {},
                   !.seen = IF e[2] = "" THEN @ ELSE {},
                   !.pending = <<>>]
    ELSE IF e[1] = "raise"
    THEN [l EXCEPT !.raised = e[2], !.unspoken = TRUE]
    ELSE IF e[1] = "error"
    THEN [l EXCEPT !.unspoken = TRUE]
    ELSE IF e[1] = "capture"
    THEN [l EXCEPT !.captured = e[2]]
    ELSE IF e[1] = "write"
    THEN [l EXCEPT !.wrote = e[2]]
    ELSE LET cycle == l.cycle \/ e[2] \in l.seen
         IN  [l EXCEPT !.seen = IF cycle THEN {} ELSE @ \cup {e[2]},
                       !.cycle = cycle,
                       !.raised = "",
                       !.interrupted = FALSE,
                       !.captured = IF e[2][1] = "speech_to_text" THEN @ ELSE "",
                       !.wrote = ""]

RECURSIVE LogEvents(_, _)
LogEvents(l, evs) == IF evs = <<>> THEN l ELSE LogEvents(LogEvent(l, Head(evs)), Tail(evs))

\* the history after a node that did evs has returned
LogNode(l, evs) == [LogEvents(l, evs) EXCEPT !.said = {}]

Say(text) == <<"say", text>>
Hear(reply) == <<"hear", reply>>
Enter == <<"enter", <<node, state>>>>
Raise(error) == <<"raise", error>>
Err(error) == <<"error", error>>
Capture(voice_input) == <<"capture", voice_input>>
Write(path) == <<"write", path>>

\* what a capture can return
Replies(said) == said \cup {""}

\* ---- Python values and json.loads ----

PyNone == [kind |-> "none"]
PyStr(s) == [kind |-> "str", value |-> s]
\* a number, in hundredths
PyNumber(hundredths) == [kind |-> "number", value |-> hundredths]
PyList(items) == [kind |-> "list", items |-> items]
\* a dict: items maps each key to its value
PyDict(items) == [kind |-> "dict", items |-> items]

NoItems == [k \in {} |-> PyNone]

Rest(t) == SubSeq(t, 2, Len(t))

RECURSIVE SkipSpaces(_)
SkipSpaces(t) == IF t # "" /\ Head(t) = " " THEN SkipSpaces(Rest(t)) ELSE t

\* json.JSONDecodeError
JsonError == [ok |-> FALSE]

Parsed(value, rest) == [ok |-> TRUE, value |-> value, rest |-> rest]

IsDigit(c) == IsSub(c, "0123456789")

DigitValue(c) == CHOOSE d \in 0..9 : CharAt("0123456789", d + 1) = c

RECURSIVE LeadingDigits(_)
LeadingDigits(t) == IF t # "" /\ IsDigit(Head(t)) THEN 1 + LeadingDigits(Rest(t)) ELSE 0

RECURSIVE ToInt(_)
ToInt(digits) ==
    IF digits = "" THEN 0
    ELSE ToInt(SubSeq(digits, 1, Len(digits) - 1)) * 10 + DigitValue(CharAt(digits, Len(digits)))

\* a JSON string after its opening quote; escapes are not part of the subset
ParseString(t) ==
    IF ~IsSub("\"", t) THEN JsonError
    ELSE LET q == CHOOSE i \in 1..Len(t) :
                     CharAt(t, i) = "\"" /\ \A j \in 1..(i - 1) : CharAt(t, j) # "\""
         IN  IF IsSub("\\", SubSeq(t, 1, q - 1)) THEN JsonError
             ELSE Parsed(PyStr(SubSeq(t, 1, q - 1)), SubSeq(t, q + 1, Len(t)))

\* a JSON number without sign and exponent, kept to two decimal places
ParseNumber(t) ==
    LET n == LeadingDigits(t)
        after == SubSeq(t, n + 1, Len(t))
        whole == ToInt(SubSeq(t, 1, n)) * 100
    IN  IF n = 0 \/ (n > 1 /\ Head(t) = "0") THEN JsonError
        ELSE IF after # "" /\ Head(after) = "."
        THEN LET m == LeadingDigits(Rest(after))
             IN  IF m = 0 THEN JsonError
                 ELSE Parsed(PyNumber(whole + ToInt(SubSeq(SubSeq(after, 2, m + 1) \o "00", 1, 2))),
                             SubSeq(after, m + 2, Len(after)))
        ELSE Parsed(PyNumber(whole), after)

RECURSIVE ParseValue(_), ParseMembers(_, _), ParseElements(_, _)
\* the JSON decoder on objects, arrays, strings, numbers and null
ParseValue(text) ==
    LET t == SkipSpaces(text)
    IN  IF t = "" THEN JsonError
        ELSE IF Head(t) = "\"" THEN ParseString(Rest(t))
        ELSE IF Head(t) = "{"
        THEN LET r == SkipSpaces(Rest(t))
             IN  IF r # "" /\ Head(r) = "}" THEN Parsed(PyDict(NoItems), Rest(r))
                 ELSE ParseMembers(r, NoItems)
        ELSE IF Head(t) = "["
        THEN LET r == SkipSpaces(Rest(t))
             IN  IF r # "" /\ Head(r) = "]" THEN Parsed(PyList(<<>>), Rest(r))
                 ELSE ParseElements(r, <<>>)
        ELSE IF IsDigit(Head(t)) THEN ParseNumber(t)
        ELSE IF Len(t) >= 4 /\ SubSeq(t, 1, 4) = "null" THEN Parsed(PyNone, SubSeq(t, 5, Len(t)))
        ELSE JsonError

\* the members of an object from a key on; a repeated key keeps its last value
ParseMembers(t, items) ==
    IF t = "" \/ Head(t) # "\"" THEN JsonError
    ELSE LET k == ParseString(Rest(t))
         IN  IF ~k.ok THEN JsonError
             ELSE LET c == SkipSpaces(k.rest)
                  IN  IF c = "" \/ Head(c) # ":" THEN JsonError
                      ELSE LET v == ParseValue(Rest(c))
                           IN  IF ~v.ok THEN JsonError
                               ELSE LET r == SkipSpaces(v.rest)
                                        added == (k.value.value :> v.value) @@ items
                                    IN  IF r = "" THEN JsonError
                                        ELSE IF Head(r) = "}" THEN Parsed(PyDict(added), Rest(r))
                                        ELSE IF Head(r) = "," THEN ParseMembers(SkipSpaces(Rest(r)), added)
                                        ELSE JsonError

\* the elements of an array from an element on
ParseElements(t, items) ==
    LET v == ParseValue(t)
    IN  IF ~v.ok THEN JsonError
        ELSE LET r == SkipSpaces(v.rest)
                 added == Append(items, v.value)
             IN  IF r = "" THEN JsonError
                 ELSE IF Head(r) = "]" THEN Parsed(PyList(added), Rest(r))
                 ELSE IF Head(r) = "," THEN ParseElements(Rest(r), added)
                 ELSE JsonError

\* json.loads: the whole text must be one value
JsonLoads(text) ==
    LET p == ParseValue(text)
    IN  IF p.ok /\ SkipSpaces(p.rest) = "" THEN p ELSE JsonError

\* ---- IntentAgent ----

\* _is_exit_intent
ExitPhrases ==
    {"thank you pair programming", "thanks pair programming", "thank you pair programmer",
     "goodbye pair programming", "exit pair programming", "stop pair programming"}

IsExitIntent(text) == AnyIn(ExitPhrases, Strip(Lower(text)))

\* required_fields of _classify_with_gpt4
RequiredFields == {"intent", "confidence", "action", "message"}

\* Python `field in value`; None and numbers raise TypeError instead
HasMembers(value) == value.kind \in {"dict", "list", "str"}

IsIn(field, value) ==
    CASE value.kind = "dict" -> field \in DOMAIN value.items
      [] value.kind = "list" ->
            \E i \in DOMAIN value.items : value.items[i].kind = "str" /\ value.items[i].value = field
      [] value.kind = "str" -> IsSub(field, value.value)
      [] OTHER -> FALSE

\* the except clause of _classify_with_gpt4
GptFallback ==
    PyDict([intent |-> PyStr("discussion"),
            confidence |-> PyNumber(30),
            action |-> PyStr("discuss"),
            extracted_info |-> PyDict(NoItems),
            message |-> PyStr("Fallback classification due to parsing error")])

\* the except clause of run
RunFallback ==
    PyDict([intent |-> PyStr("discussion"),
            confidence |-> PyNumber(50),
            action |-> PyStr("discuss"),
            message |-> PyStr("Defaulting to discussion mode due to classification error")])

\* the record run returns for an exit phrase
ExitClassification ==
    PyDict([intent |-> PyStr("exit"),
            confidence |-> PyNumber(100),
            action |-> PyStr("end_session"),
            message |-> PyStr("Goodbye session detected")])

LacksFieldNever(value) == FALSE

\* the validation loop: a field is missing, or the test itself raises
LacksField(value) == ~HasMembers(value) \/ \E field \in RequiredFields : ~IsIn(field, value)

\* _classify_with_gpt4 on the answer of the completion service
ClassifyWithGpt4(answer) ==
    IF answer.outcome # "text" THEN GptFallback
    ELSE LET parsed == JsonLoads(Strip(answer.text))
         IN  IF ~parsed.ok THEN GptFallback
             ELSE IF LacksField(parsed.value) THEN GptFallback
             ELSE IF IsIn("extracted_info", parsed.value) THEN parsed.value
             ELSE IF parsed.value.kind = "dict"
             THEN PyDict(("extracted_info" :> PyDict(NoItems)) @@ parsed.value.items)
             ELSE GptFallback

\* IntentAgent.run: the value returned and the number of completion requests
IntentAgentRun(input_data, answer) ==
    IF IsExitIntent(input_data) THEN [value |-> ExitClassification, completions |-> 0]
    ELSE LET classification == ClassifyWithGpt4(answer)
         IN  [value |-> IF classification.kind = "dict" THEN classification ELSE RunFallback,
              completions |-> 1]

\* what the completion service can answer: an exception, a message without
\* content, or a text
CompletionTexts ==
    {"{\"intent\": \"coding\", \"confidence\": 0.95, \"action\": \"generate_code\", \"message\": \"User wants code\"}",
     "{\"intent\": \"code_analysis\", \"confidence\": 0.9, \"action\": \"analyze_code\", \"extracted_info\": {\"analysis_type\": \"explain\"}, \"message\": \"analysis\"}",
     "  {\"intent\": \"file_operations\", \"confidence\": 1, \"action\": \"open\", \"message\": \"\"}  ",
     "{\"intent\": \"discussion\", \"confidence\": 0.8, \"action\": \"discuss\"}",
     "{\"confidence\": 0.8, \"action\": \"discuss\", \"message\": \"no intent\"}",
     "{}",
     "",
     "I think the intent is coding",
     "json: {\"intent\": \"coding\", \"confidence\": 0.95, \"action\": \"generate_code\", \"message\": \"prefixed\"}",
     "{\"intent\": \"coding\", \"confidence\": 0.95, \"action\": \"generate_code\", \"message\": \"cut off",
     "[\"intent\", \"confidence\", \"action\", \"message\"]",
     "[\"intent\", \"confidence\", \"action\", \"message\", \"extracted_info\"]",
     "\"intent confidence action message extracted_info\"",
     "5",
     "null"}

ServiceAnswers ==
    {[outcome |-> "raises", text |-> ""], [outcome |-> "no content", text |-> ""]}
        \cup {[outcome |-> "text", text |-> t] : t \in CompletionTexts}

\* what the user may say to the orchestrator
IntentInputs ==
    Requests \cup {"", "thank you pair programming", " Thanks Pair Programming, bye ",
                   "ok stop pair programming now", "thank you"}

\* no agent call in progress
NoCall ==
    [spoken |-> "",                                    \* what the user says into the microphone
     service |-> [outcome |-> "raises", text |-> ""],  \* how the remote service answers
     value |-> PyNone,                                 \* what the call returned
     completions |-> 0]                                \* requests made to the service

\* ---- the process: its environment and the agents it has constructed ----

\* os.getenv of a variable that is not set (None)
Unset == "UNSET"

\* what an environment variable can hold after load_dotenv
EnvValues == {Unset, "", "key"}

\* the three ways the program is launched
Entries == {"main_langgraph.main", "PairProgrammingOrchestrator.__init__", "langgraph_pipeline.main"}

\* the entry points that verify OPENAI_API_KEY themselves
VerifyingEntries == {"main_langgraph.main", "PairProgrammingOrchestrator.__init__"}

\* LangGraphVoicePipeline.__init__: the agents in construction order
PipelineAgents ==
    <<"STTAgent", "TTSPromptAgent", "PythonAgent", "DiscussionAgent", "CodeAnalysisAgent", "CodeRabbitAgent">>

\* PairProgrammingOrchestrator.__init__: the agents in construction order
OrchestratorAgents ==
    <<"STTAgent", "TTSPromptAgent", "IntentAgent", "DiscussionAgent", "FileAgent", "CodeAnalysisAgent",
      "TodoAgent", "ProgrammingAgent">>

AgentsOf(entry) ==
    IF entry = "PairProgrammingOrchestrator.__init__" THEN OrchestratorAgents ELSE PipelineAgents

\* the agents whose constructor builds OpenAI(api_key=os.getenv("OPENAI_API_KEY"))
OpenAIClientAgents ==
    {"STTAgent", "TTSPromptAgent", "IntentAgent", "DiscussionAgent", "CodeAnalysisAgent", "TodoAgent"}

MsgNoApiKey == "ERROR: OPENAI_API_KEY not found in environment variables."

\* the OpenAIError the client constructor raises for api_key=None
MsgOpenAIError == "The api_key client option must be set"

\* exit_code of a process that has not exited
NoExit == -1

\* `not os.getenv(name)`: unset and empty are both falsy
MissingKey(value) == value \in {Unset, ""}

InitializePorcupineAlwaysEnabled(access_key) == TRUE

\* _initialize_porcupine: pvporcupine.create rejects the empty access key,
\* the exception is caught and wake_word_enabled becomes False
InitializePorcupine(access_key) == ~MissingKey(access_key)

\* the process when the interpreter enters the entry point
Launched(entry, openai_key, porcupine_key) ==
    [entry |-> entry,
     OPENAI_API_KEY |-> openai_key,
     PORCUPINE_ACCESS_KEY |-> porcupine_key,
     at |-> "start",
     agents |-> <<>>,
     wake_word_enabled |-> FALSE,
     exit_code |-> NoExit,
     diagnostic |-> ""]

\* the process in which the continuous session runs
Started ==
    [Launched("main_langgraph.main", "key", "key") EXCEPT
        !.at = "session", !.agents = PipelineAgents, !.wake_word_enabled = TRUE]

Init ==
    /\ state = InitialState
    /\ node = "wake_word_detection"
    /\ pc = ""
    /\ current_todo = ""
    /\ language = ""
    /\ task_type = ""
    /\ todo_index = 0
    /\ todo_asked = {}
    /\ heard = ""
    /\ log = EmptyLog
    /\ process = Started
    /\ agent_call = NoCall

locals == <<current_todo, language, task_type, todo_index, todo_asked>>

(***************************************************************************)
(* Routing functions.                                                      *)
(***************************************************************************)
\* _should_continue_after_wake_word
ShouldContinueAfterWakeWord(st) ==
    IF st.wake_word_detected THEN "voice_input" ELSE END

\* a router that ends the run on every reply that is not a confirmation
ConfirmationRouterEndsOnDenial(st) ==
    IF st.confirmation_status = "confirmed" THEN "intent_classification" ELSE END

\* _should_continue_after_confirmation_simple
ShouldContinueAfterConfirmationSimple(st) ==
    IF st.confirmation_status = "confirmed" THEN "intent_classification"
    ELSE IF st.confirmation_status = "re_record" THEN "voice_input"
    ELSE END

\* _should_continue_after_intent_classification
ShouldContinueAfterIntentClassification(st) ==
    IF st.user_intent = "coding" THEN "todo_generation"
    ELSE IF st.user_intent = "review" THEN "code_review"
    ELSE IF st.user_intent = "explanation" THEN "code_explanation"
    ELSE "code_explanation"

\* _should_continue_after_todo_generation
ShouldContinueAfterTodoGeneration(st) ==
    IF st.user_intent = "coding" THEN "code_generation"
    ELSE IF st.user_intent = "explanation" THEN "code_explanation"
    ELSE IF st.user_intent = "review" THEN "code_review"
    ELSE "code_generation"

\* _should_continue_after_code_generation
ShouldContinueAfterCodeGeneration(st) ==
    IF st.iteration_count < st.max_iterations THEN "todo_completion_check"
    ELSE "user_feedback"

\* _should_continue_after_code_review
ShouldContinueAfterCodeReview(st) == "response_generation"

\* _should_continue_after_user_feedback
ShouldContinueAfterUserFeedback(st) ==
    IF st.feedback_processed THEN "code_iteration" ELSE "response_generation"

\* a router after code_iteration that always asks for feedback again
CodeIterationRouterAlwaysLoops(st) ==
    "user_feedback"

\* _should_continue_after_code_iteration
ShouldContinueAfterCodeIteration(st) ==
    IF st.iteration_count < st.max_iterations THEN "user_feedback" ELSE "response_generation"

\* _should_continue_after_todo_completion_check
ShouldContinueAfterTodoCompletionCheck(st) ==
    IF st.todos_completed THEN "response_generation"
    ELSE IF st.current_todo_index < Len(st.generated_todos) THEN "code_generation"
    ELSE "response_generation"

\* a router after response_generation that ends every run
ResponseGenerationRouterAlwaysEnds(st) ==
    END

\* _should_continue_after_response_generation
ShouldContinueAfterResponseGeneration(st) ==
    IF st.pipeline_status = "active" THEN "intent_classification" ELSE END

(***************************************************************************)
(* Nodes of the workflow.  Each action is one execution of a node followed *)
(* by the routing function of its outgoing edge.                           *)
(***************************************************************************)
\* STTAgent.listen_for_wake_word: False at once when the detector is not
\* available; otherwise True when the wake word is heard, False on an error
ListenForWakeWord(wake_word_enabled) ==
    IF wake_word_enabled THEN BOOLEAN ELSE {FALSE}

\* _wake_word_detection_node
WakeWordDetection ==
    /\ node = "wake_word_detection"
    /\ process.at = "session"
    /\ \E detected \in ListenForWakeWord(process.wake_word_enabled) :
        LET st == IF detected
                  THEN [state EXCEPT !.wake_word_detected = TRUE,
                                     !.current_step = "wake_word_detection"]
                  ELSE [state EXCEPT !.wake_word_detected = FALSE,
                                     !.current_step = "wake_word_detection",
                                     !.pipeline_status = "completed"]
        IN  /\ state' = st
            /\ node' = ShouldContinueAfterWakeWord(st)
    /\ heard' = ""
    /\ log' = LogNode(log, <<Enter>>)
    /\ UNCHANGED <<pc, locals, process, agent_call>>

\* _voice_input_node
VoiceInput ==
    /\ node = "voice_input"
    /\ \E voice_input \in Replies(Requests) :
        /\ heard' = voice_input
        /\ log' = LogNode(log, <<Enter, Hear(voice_input), Capture(voice_input)>>
                                 \o (IF voice_input = "" THEN <<Err("No voice input detected")>> ELSE <<>>))
        /\ state' = IF voice_input # ""
                    THEN [state EXCEPT !.confirmation_spoken = FALSE,
                                       !.voice_input = voice_input,
                                       !.current_step = "voice_input"]
                    ELSE [state EXCEPT !.confirmation_spoken = FALSE,
                                       !.error_message = "No voice input detected",
                                       !.pipeline_status = "error"]
    /\ node' = "speech_to_text"
    /\ UNCHANGED <<pc, locals, process, agent_call>>

\* _speech_to_text_node
SpeechToText ==
    /\ node = "speech_to_text"
    /\ state' = IF state.voice_input # ""
                THEN [state EXCEPT !.transcribed_text = SttRun(state.voice_input),
                                   !.current_step = "speech_to_text"]
                ELSE [state EXCEPT !.error_message = "No voice input to transcribe",
                                   !.pipeline_status = "error"]
    /\ node' = "confirmation"
    /\ heard' = ""
    /\ log' = LogNode(log, IF state.voice_input # "" THEN <<Enter>>
                           ELSE <<Enter, Err("No voice input to transcribe")>>)
    /\ UNCHANGED <<pc, locals, process, agent_call>>

\* the affirm words with "yeah" forgotten
ConfirmWordsWithoutYeah == {"yes", "correct", "right", "yep", "ok", "okay"}

\* the words _confirmation_node takes for a yes
ConfirmWords == {"yes", "correct", "right", "yeah", "yep", "ok", "okay"}

\* a confirmation that takes silence for a no
ConfirmationStatusSilenceDenies(confirmation_response) ==
    IF confirmation_response = "" THEN "re_record"
    ELSE IF AnyIn(ConfirmWords, Strip(Lower(confirmation_response))) THEN "confirmed"
    ELSE "re_record"

\* _confirmation_node: what the reply to the confirmation question means
ConfirmationStatus(confirmation_response) ==
    IF confirmation_response = "" THEN "confirmed"
    ELSE IF AnyIn(ConfirmWords, Strip(Lower(confirmation_response))) THEN "confirmed"
    ELSE "re_record"

\* _confirmation_node on a request, from the question to the answer spoken
\* after the reply auto_record_speech returned
ConfirmationWith(confirmation_response) ==
    LET ask == IF ~state.confirmation_spoken
               THEN <<Say(ConfirmationMsg(SummarizeUserRequest(state.transcribed_text)))>>
               ELSE <<>>
        status == ConfirmationStatus(confirmation_response)
        st == [state EXCEPT !.confirmation_spoken = TRUE,
                            !.user_confirmed = (status = "confirmed"),
                            !.confirmation_status = status,
                            !.current_step = "confirmation"]
        answer == IF confirmation_response = "" THEN MsgAssumeConfirmed
                  ELSE IF status = "confirmed" THEN MsgConfirmed
                  ELSE SorryMsg
    IN  /\ heard' = confirmation_response
        /\ log' = LogNode(log, <<Enter>> \o ask \o <<Hear(confirmation_response), Say(answer)>>)
        /\ state' = st
        /\ node' = Route(ShouldContinueAfterConfirmationSimple(st), ConfirmationEdges)

\* _confirmation_node
Confirmation ==
    /\ node = "confirmation"
    /\ IF state.transcribed_text # ""
       THEN \E confirmation_response \in Replies(Answers) : ConfirmationWith(confirmation_response)
       ELSE LET st == [state EXCEPT !.error_message = "No transcribed text to confirm",
                                    !.pipeline_status = "error"]
            IN  /\ state' = st
                /\ node' = Route(ShouldContinueAfterConfirmationSimple(st), ConfirmationEdges)
                /\ heard' = ""
                /\ log' = LogNode(log, <<Enter, Err("No transcribed text to confirm")>>)
    /\ UNCHANGED <<pc, locals, process, agent_call>>

\* the words _intent_classification_node takes for a file operation
FileOperationWords == {"rename", "rename file", "change file", "move file", "copy file"}
ReviewWords == {"review", "check", "analyze", "examine", "look at"}
ExplanationWords == {"explain", "what", "how", "why", "tell me", "describe"}
CodingWords == {"code", "program", "function", "class", "write", "create", "build", "make", "generate"}

\* a classification that looks for the coding keywords first
ClassifyIntentCodingFirst(transcribed_text) ==
    LET transcribed_lower == Lower(transcribed_text)
    IN  IF AnyIn(CodingWords, transcribed_lower) THEN "coding"
        ELSE IF AnyIn(ReviewWords, transcribed_lower) THEN "review"
        ELSE IF AnyIn(ExplanationWords, transcribed_lower) THEN "explanation"
        ELSE "coding"

\* _intent_classification_node, the keyword classification
ClassifyIntent(transcribed_text) ==
    LET transcribed_lower == Lower(transcribed_text)
    IN  IF AnyIn(ReviewWords, transcribed_lower) THEN "review"
        ELSE IF AnyIn(ExplanationWords, transcribed_lower) THEN "explanation"
        ELSE IF AnyIn(CodingWords, transcribed_lower) THEN "coding"
        ELSE "coding"

\* str(e) of the AttributeError raised by the call of _handle_file_operation,
\* a method LangGraphVoicePipeline does not define
NoFileOperationHandler ==
    "'LangGraphVoicePipeline' object has no attribute '_handle_file_operation'"

\* _intent_classification_node
IntentClassification ==
    /\ node = "intent_classification"
    /\ IF state.transcribed_text = ""
       THEN \E new_request \in Replies(Requests) :
            LET st == IF new_request = ""
                      THEN [state EXCEPT !.pipeline_status = "completed"]
                      ELSE IF AnyIn(FileOperationWords, Lower(new_request))
                      THEN [state EXCEPT !.error_message = NoFileOperationHandler,
                                         !.pipeline_status = "error"]
                      ELSE [state EXCEPT !.transcribed_text = new_request,
                                         !.user_intent = ClassifyIntent(new_request),
                                         !.current_step = "intent_classification"]
            IN  /\ heard' = new_request
                /\ log' = LogNode(log, <<Enter, Say(MsgAskNewRequest), Hear(new_request)>>
                                         \o (IF new_request = "" THEN <<Say(MsgNoNewRequest)>>
                                             ELSE IF AnyIn(FileOperationWords, Lower(new_request))
                                             THEN <<Raise(NoFileOperationHandler)>>
                                             ELSE <<>>))
                /\ state' = st
                /\ node' = ShouldContinueAfterIntentClassification(st)
       ELSE LET st == [state EXCEPT !.user_intent = ClassifyIntent(state.transcribed_text),
                                    !.current_step = "intent_classification"]
            IN  /\ state' = st
                /\ node' = ShouldContinueAfterIntentClassification(st)
                /\ heard' = ""
                /\ log' = LogNode(log, <<Enter>>)
    /\ UNCHANGED <<pc, locals, process, agent_call>>

\* _todo_generation_node
TodoGeneration ==
    /\ node = "todo_generation"
    /\ LET todos == GenerateTodosFromRequest(state.transcribed_text)
           st == [state EXCEPT !.generated_todos = todos,
                               !.todos_completed = FALSE,
                               !.current_step = "todo_generation",
                               !.current_todo_index = 0]
       IN  /\ state' = st
           /\ log' = LogNode(log, <<Enter>> \o (IF todos # <<>> THEN <<Say(MsgPlan(Len(todos), todos[1]))>> ELSE <<>>))
           /\ node' = ShouldContinueAfterTodoGeneration(st)
    /\ heard' = ""
    /\ UNCHANGED <<pc, locals, process, agent_call>>

\* _code_review_node
\* what the node speaks for an outcome of the reviewer
ReviewSpoken(status) ==
    IF status = "completed" THEN ReviewSummary ELSE MsgReviewFailed

\* the workflow state the node returns for an outcome of the reviewer
ReviewedState(st, status) ==
    IF status = "completed"
    THEN [st EXCEPT !.code_review = ReviewOutput,
                    !.current_step = "code_review",
                    !.pipeline_status = "completed"]
    ELSE [st EXCEPT !.current_step = "code_review",
                    !.pipeline_status = "error"]

\* the node when the reviewer returns status
CodeReviewWith(status) ==
    /\ node = "code_review"
    /\ state' = ReviewedState(state, status)
    /\ log' = LogNode(log, <<Enter, Say(CODERABBIT_START_MESSAGE), Say(ReviewSpoken(status))>>
                             \o (IF status = "completed" THEN <<>> ELSE <<Err(status)>>))
    /\ node' = ShouldContinueAfterCodeReview(ReviewedState(state, status))
    /\ heard' = ""
    /\ UNCHANGED <<pc, locals, process, agent_call>>

CodeReview == \E status \in ReviewStatuses : CodeReviewWith(status)

\* _code_explanation_node (the definition at the end of the class, which
\* replaces the earlier one of the same name)
CodeExplanation ==
    /\ node = "code_explanation"
    /\ state' = [state EXCEPT !.current_step = "code_explanation",
                              !.pipeline_status = "completed"]
    /\ node' = "response_generation"
    /\ heard' = ""
    /\ log' = LogNode(log, <<Enter>>)
    /\ UNCHANGED <<pc, locals, process, agent_call>>

\* _todo_completion_check_node
TodoCompletionCheck ==
    /\ node = "todo_completion_check"
    /\ LET todos == state.generated_todos
           completed_todos == CheckTodoCompletion(todos, state.generated_code)
           done == Len(completed_todos) = Len(todos)
           remaining == Len(todos) - Len(completed_todos)
           st == [state EXCEPT !.todos_completed = done,
                               !.current_step = "todo_completion_check"]
           text == IF done THEN MsgAllTodosDone
                   ELSE IF state.current_todo_index < Len(todos)
                   THEN MsgTodosRemain(remaining, todos[state.current_todo_index + 1])
                   ELSE MsgTodosProcessed
       IN  /\ state' = st
           /\ log' = LogNode(log, <<Enter, Say(text)>>)
           /\ node' = ShouldContinueAfterTodoCompletionCheck(st)
    /\ heard' = ""
    /\ UNCHANGED <<pc, locals, process, agent_call>>

(***************************************************************************)
(* The feedback loop: user_feedback and code_iteration.                    *)
(***************************************************************************)
\* str(e) of a failed open/write of the code file
WriteError == "[Errno 13] Permission denied"

\* what the user may say when asked for feedback on the code
Feedbacks == {"add more comments"}

\* _user_feedback_node
UserFeedback ==
    /\ node = "user_feedback"
    /\ \E user_feedback \in Replies(Feedbacks) :
        LET st == IF user_feedback # ""
                  THEN [state EXCEPT !.user_feedback = user_feedback,
                                     !.feedback_processed = TRUE,
                                     !.current_step = "user_feedback"]
                  ELSE [state EXCEPT !.user_feedback = "No feedback provided",
                                     !.feedback_processed = FALSE]
        IN  /\ heard' = user_feedback
            /\ state' = st
            /\ log' = LogNode(log, <<Enter, Say(FeedbackPrompt), Hear(user_feedback)>>)
            /\ node' = ShouldContinueAfterUserFeedback(st)
    /\ UNCHANGED <<pc, locals, process, agent_call>>

\* a code_iteration node that improves the code whatever the count is
CodeIterationUncapped ==
    /\ node = "code_iteration"
    /\ LET st == [state EXCEPT !.generated_code = ImproveCodeWithFeedback(state.generated_code, state.user_feedback),
                               !.iteration_count = @ + 1,
                               !.current_step = "code_iteration"]
       IN  /\ state' = st
           /\ node' = ShouldContinueAfterCodeIteration(st)
    /\ heard' = ""
    /\ log' = LogNode(log, <<Enter>>)
    /\ UNCHANGED <<pc, locals, process, agent_call>>

\* _code_iteration_node
CodeIteration ==
    /\ node = "code_iteration"
    /\ \E write_ok \in BOOLEAN :
        LET improved_code == ImproveCodeWithFeedback(state.generated_code, state.user_feedback)
            st == IF state.iteration_count >= state.max_iterations
                  THEN [state EXCEPT !.current_step = "code_iteration"]
                  ELSE IF write_ok /\ state.code_file_path # ""
                  THEN [state EXCEPT !.generated_code = improved_code,
                                     !.iteration_count = @ + 1,
                                     !.current_step = "code_iteration"]
                  ELSE [state EXCEPT !.error_message = WriteError,
                                     !.pipeline_status = "error"]
        IN  /\ state' = st
            /\ node' = ShouldContinueAfterCodeIteration(st)
            /\ log' = LogNode(log, IF state.iteration_count >= state.max_iterations
                                   THEN <<Enter>>
                                   ELSE IF write_ok /\ state.code_file_path # ""
                                   THEN <<Enter, Write(state.code_file_path)>>
                                   ELSE <<Enter, Raise(WriteError)>>)
    /\ heard' = ""
    /\ UNCHANGED <<pc, locals, process, agent_call>>

(***************************************************************************)
(* The code_generation node.  It talks with the user in loops, so it is    *)
(* modelled by one action per stretch of code between two captures; pc is  *)
(* the capture the node is waiting at.                                     *)
(***************************************************************************)
LanguageYesWords == {"yes", "correct", "right", "good", "ok", "okay"}
LanguageNoWords == {"no", "wrong", "change", "different"}
DiscussYesWords == {"yes", "good", "sounds good", "proceed", "go ahead", "ok", "okay", "perfect", "great"}
DiscussChangeWords == {"no", "wrong", "change", "different", "something else", "i want something else"}
ChangeOptionWords == {"languages", "support", "options", "what languages", "which languages", "other languages"}
DiscussPauseWords == {"wait", "stop", "pause", "hold on"}
DiscussHelpWords == {"help", "what", "how", "explain", "support", "languages", "options"}
HelpOptionWords == {"languages", "support", "options", "what languages", "which languages"}
QuickYesWords == {"yes", "continue", "go ahead"}
NextYesWords == {"yes", "continue", "next", "go ahead"}
NextChangeWords == {"no", "change", "modify", "different"}

\* the code_generation node returns: its locals and the keys of the state
\* dict that are not fields of VoiceCodingState (todo_asked_i) are gone
CodeGenerationReturn(st, evs) ==
    /\ state' = st
    /\ log' = LogNode(log, evs)
    /\ node' = ShouldContinueAfterCodeGeneration(st)
    /\ pc' = ""
    /\ current_todo' = ""
    /\ language' = ""
    /\ task_type' = ""
    /\ todo_index' = 0
    /\ todo_asked' = {}
    /\ UNCHANGED <<process, agent_call>>

\* the except clause of _code_generation_node
\* a handler that records the error and leaves pipeline_status alone
CodeGenerationFailsStatusKept(evs, error) ==
    CodeGenerationReturn([state EXCEPT !.error_message = error], evs \o <<Raise(error)>>)

CodeGenerationFails(evs, error) ==
    CodeGenerationReturn([state EXCEPT !.error_message = error, !.pipeline_status = "error"],
                         evs \o <<Raise(error)>>)

\* _interactive_discussion_loop, top of the while loop: the prompt is
\* spoken, then the node waits for the reply
DiscussionPrompt(evs, todo, lang, tt, asked) ==
    /\ log' = LogEvents(log, evs \o <<Say(MsgDiscuss(todo, lang, tt))>>)
    /\ pc' = "discuss"
    /\ current_todo' = todo
    /\ language' = lang
    /\ task_type' = tt
    /\ todo_asked' = asked
    /\ UNCHANGED <<process, agent_call>>
    /\ UNCHANGED <<state, node>>

\* _interactive_discussion_loop, entry: nothing happens when the todo was
\* already asked about
InteractiveDiscussionLoop(st, evs, todo, lang, tt, idx) ==
    IF idx \in todo_asked
    THEN CodeGenerationReturn(st, evs)
    ELSE /\ DiscussionPrompt(evs, todo, lang, tt, todo_asked \cup {idx})
         /\ todo_index' = idx

\* a code generation that moves the cursor past the next todo as well
GenerateAndSaveCodeSkipsTodo(evs, todo, lang, tt) ==
    \E write_ok \in BOOLEAN :
        LET transcribed_text == state.transcribed_text
            generated_code == GenerateUniversalCode(transcribed_text, state.generated_todos, lang, tt)
            code_file_path == GenerateSmartFilename(transcribed_text, lang) \o "." \o GetFileExtension(lang)
        IN  IF write_ok
            THEN /\ state' = [state EXCEPT !.generated_code = generated_code,
                                           !.code_file_path = code_file_path,
                                           !.iteration_count = @ + 1,
                                           !.current_step = "code_generation",
                                           !.current_todo_index = todo_index + 2]
                 /\ log' = LogEvents(log, evs \o <<Write(code_file_path),
                                                    Say(MsgCodeSaved(lang, todo, code_file_path))>>)
                 /\ pc' = "next_instruction"
                 /\ current_todo' = todo
                 /\ language' = lang
                 /\ task_type' = tt
                 /\ UNCHANGED <<node, todo_index, todo_asked, process, agent_call>>
            ELSE CodeGenerationFails(evs, WriteError)

\* _generate_and_save_code up to its capture
GenerateAndSaveCode(evs, todo, lang, tt) ==
    \E write_ok \in BOOLEAN :
        LET transcribed_text == state.transcribed_text
            generated_code == GenerateUniversalCode(transcribed_text, state.generated_todos, lang, tt)
            code_file_path == GenerateSmartFilename(transcribed_text, lang) \o "." \o GetFileExtension(lang)
        IN  IF write_ok
            THEN /\ state' = [state EXCEPT !.generated_code = generated_code,
                                           !.code_file_path = code_file_path,
                                           !.iteration_count = @ + 1,
                                           !.current_step = "code_generation",
                                           !.current_todo_index = todo_index + 1]
                 /\ log' = LogEvents(log, evs \o <<Write(code_file_path),
                                                    Say(MsgCodeSaved(lang, todo, code_file_path))>>)
                 /\ pc' = "next_instruction"
                 /\ current_todo' = todo
                 /\ language' = lang
                 /\ task_type' = tt
                 /\ UNCHANGED <<node, todo_index, todo_asked, process, agent_call>>
            ELSE CodeGenerationFails(evs, WriteError)

\* _code_generation_node and _start_interactive_discussion up to the first capture
CodeGenerationStart ==
    /\ node = "code_generation"
    /\ pc = ""
    /\ LET todos == state.generated_todos
           idx == state.current_todo_index
       IN  IF state.transcribed_text # "" /\ todos # <<>>
           THEN LET todo == IF idx < Len(todos) THEN todos[idx + 1] ELSE todos[Len(todos)]
                    lang == AnalyzeLanguage(state.transcribed_text)
                    tt == AnalyzeTaskType(state.transcribed_text)
                IN  IF lang = "python" /\ ~IsLanguageSpecified(state.transcribed_text)
                    THEN /\ log' = LogEvents(log, <<Enter, Say(MsgAskLanguage)>>)
                         /\ pc' = "language_choice"
                         /\ current_todo' = todo
                         /\ language' = lang
                         /\ task_type' = tt
                         /\ todo_index' = idx
                         /\ UNCHANGED <<state, node, todo_asked, process, agent_call>>
                    ELSE InteractiveDiscussionLoop(state, <<Enter>>, todo, lang, tt, idx)
           ELSE CodeGenerationReturn([state EXCEPT !.error_message = "No transcribed text or todos for code generation",
                                                   !.pipeline_status = "error"],
                                     <<Enter, Err("No transcribed text or todos for code generation")>>)
    /\ heard' = ""

\* _get_language_with_discussion: the capture of the language choice
LanguageChoice ==
    /\ node = "code_generation"
    /\ pc = "language_choice"
    /\ \E language_response \in Replies(Answers \cup LanguageAnswers) :
        /\ heard' = language_response
        /\ IF language_response # ""
           THEN \E detected \in DetectedLanguages :
                /\ log' = LogEvents(log, <<Hear(language_response), Say(MsgLanguageChosen(detected))>>)
                /\ pc' = "language_confirm"
                /\ language' = detected
                /\ UNCHANGED <<state, node, current_todo, task_type, todo_index, todo_asked, process, agent_call>>
           ELSE InteractiveDiscussionLoop(state, <<Hear(language_response), Say(MsgLanguageDefault)>>,
                                          current_todo, "python", task_type, todo_index)

\* _get_language_with_discussion: the capture of the confirmation
LanguageConfirm ==
    /\ node = "code_generation"
    /\ pc = "language_confirm"
    /\ \E confirm_response \in Replies(Answers) :
        LET confirm_lower == Strip(Lower(confirm_response))
        IN  /\ heard' = confirm_response
            /\ IF confirm_response = "" \/ AnyIn(LanguageYesWords, confirm_lower)
               THEN InteractiveDiscussionLoop(state, <<Hear(confirm_response)>>,
                                              current_todo, language, task_type, todo_index)
               ELSE /\ log' = LogEvents(log, <<Hear(confirm_response),
                                Say(IF AnyIn(LanguageNoWords, confirm_lower)
                                    THEN MsgLanguageInstead ELSE MsgLanguageClarify)>>)
                    /\ pc' = "language_choice"
                    /\ UNCHANGED <<state, node, locals, process, agent_call>>

\* _interactive_discussion_loop: the capture of the reply to the prompt
Discuss ==
    /\ node = "code_generation"
    /\ pc = "discuss"
    /\ \E user_response \in Replies(Answers) :
        LET response_lower == Strip(Lower(user_response))
            h == <<Hear(user_response)>>
        IN  /\ heard' = user_response
            /\ IF user_response = ""
               THEN /\ log' = LogEvents(log, h \o <<Say(MsgStillThere)>>)
                    /\ pc' = "discuss_quick"
                    /\ UNCHANGED <<state, node, locals, process, agent_call>>
               ELSE IF AnyIn(DiscussYesWords, response_lower)
               THEN GenerateAndSaveCode(h, current_todo, language, task_type)
               ELSE IF AnyIn(DiscussChangeWords, response_lower)
               THEN /\ log' = LogEvents(log, h \o <<Say(IF AnyIn(ChangeOptionWords, response_lower)
                                                       THEN MsgLanguageOptionsInstead ELSE MsgAskChange)>>)
                    /\ pc' = "discuss_change"
                    /\ UNCHANGED <<state, node, locals, process, agent_call>>
               ELSE IF AnyIn(DiscussPauseWords, response_lower)
               THEN /\ DiscussionPrompt(h \o <<Say(MsgPause)>>, current_todo, language, task_type, todo_asked)
                    /\ UNCHANGED todo_index
               ELSE IF AnyIn(DiscussHelpWords, response_lower)
               THEN /\ log' = LogEvents(log, h \o <<Say(IF AnyIn(HelpOptionWords, response_lower)
                                                       THEN MsgLanguageOptions
                                                       ELSE MsgHelp(current_todo, language))>>)
                    /\ pc' = "discuss_help"
                    /\ UNCHANGED <<state, node, locals, process, agent_call>>
               ELSE /\ DiscussionPrompt(h \o <<Say(MsgDiscussClarify)>>, current_todo, language, task_type, todo_asked)
                    /\ UNCHANGED todo_index

\* _interactive_discussion_loop: the capture of what the user wants changed
DiscussChange ==
    /\ node = "code_generation"
    /\ pc = "discuss_change"
    /\ \E new_requirements \in Replies(Requests) :
        /\ heard' = new_requirements
        /\ IF new_requirements # ""
           THEN LET todo == UpdateTodoBasedOnFeedback(current_todo, new_requirements)
                    new_language == AnalyzeLanguage(new_requirements)
                    new_task_type == AnalyzeTaskType(new_requirements)
                IN  DiscussionPrompt(<<Hear(new_requirements), Say(MsgGotIt(todo, new_language))>>,
                                     todo, new_language, new_task_type, todo_asked)
           ELSE DiscussionPrompt(<<Hear(new_requirements), Say(MsgChangeNotCaught)>>,
                                 current_todo, language, task_type, todo_asked)
    /\ UNCHANGED todo_index

\* _interactive_discussion_loop: the capture after the offer of help
DiscussHelp ==
    /\ node = "code_generation"
    /\ pc = "discuss_help"
    /\ \E help_response \in Replies(Answers) :
        /\ heard' = help_response
        /\ DiscussionPrompt(<<Hear(help_response)>>, current_todo, language, task_type, todo_asked)
    /\ UNCHANGED todo_index

\* a follow-up capture that generates the code whatever the reply
DiscussQuickAlwaysGenerates ==
    /\ node = "code_generation"
    /\ pc = "discuss_quick"
    /\ \E quick_response \in Replies(Answers) :
        /\ heard' = quick_response
        /\ GenerateAndSaveCode(<<Hear(quick_response)>>, current_todo, language, task_type)

\* _interactive_discussion_loop: the capture after "are you still there?"
DiscussQuick ==
    /\ node = "code_generation"
    /\ pc = "discuss_quick"
    /\ \E quick_response \in Replies(Answers) :
        /\ heard' = quick_response
        /\ IF quick_response = "" \/ AnyIn(QuickYesWords, Strip(Lower(quick_response)))
           THEN GenerateAndSaveCode(<<Hear(quick_response)>>, current_todo, language, task_type)
           ELSE /\ DiscussionPrompt(<<Hear(quick_response)>>, current_todo, language, task_type, todo_asked)
                /\ UNCHANGED todo_index

\* _generate_and_save_code: the capture after "Ready for the next task?"
NextInstruction ==
    /\ node = "code_generation"
    /\ pc = "next_instruction"
    /\ \E next_instruction \in Replies(Answers) :
        LET instruction_lower == Strip(Lower(next_instruction))
        IN  /\ heard' = next_instruction
            /\ IF /\ next_instruction # ""
                  /\ ~AnyIn(NextYesWords, instruction_lower)
                  /\ AnyIn(NextChangeWords, instruction_lower)
               THEN InteractiveDiscussionLoop(state, <<Hear(next_instruction)>>,
                                              current_todo, language, task_type, todo_index)
               ELSE CodeGenerationReturn(state, <<Hear(next_instruction)>>)

(***************************************************************************)
(* The response_generation node and the session loop.                      *)
(***************************************************************************)
HelpAcceptWords == {"yes", "yeah", "yep", "sure", "ok", "okay", "help", "more", "another", "continue"}
HelpDeclineWords == {"no", "don't", "dont", "nothing", "none", "all set", "good", "fine", "thanks", "thank you"}

\* the replies the first test of _response_generation_node takes as a wish
\* for more help
AcceptReplies ==
    {r \in Answers : AnyIn(HelpAcceptWords, Strip(Lower(r)))}

\* the replies its second test takes as a refusal
DeclineReplies ==
    {r \in Answers \ AcceptReplies : AnyIn(HelpDeclineWords, Strip(Lower(r)))}

\* a reset for the next task that keeps the old request
ResetTaskKeepsRequest(st) ==
    [st EXCEPT !.user_confirmed = FALSE,
               !.confirmation_status = "",
               !.confirmation_spoken = FALSE,
               !.user_intent = "",
               !.generated_todos = <<>>,
               !.todos_completed = FALSE,
               !.generated_code = "",
               !.code_file_path = "",
               !.code_explanation = "",
               !.code_review = "",
               !.review_score = 0,
               !.user_feedback = "",
               !.feedback_processed = FALSE,
               !.iteration_count = 0,
               !.final_response = "",
               !.current_todo_index = 0]

\* the fields every branch of _response_generation_node clears
ResetTask(st) ==
    [st EXCEPT !.user_confirmed = FALSE,
               !.confirmation_status = "",
               !.confirmation_spoken = FALSE,
               !.user_intent = "",
               !.generated_todos = <<>>,
               !.todos_completed = FALSE,
               !.generated_code = "",
               !.code_file_path = "",
               !.code_explanation = "",
               !.code_review = "",
               !.review_score = 0,
               !.user_feedback = "",
               !.feedback_processed = FALSE,
               !.iteration_count = 0,
               !.final_response = "",
               !.current_todo_index = 0,
               !.transcribed_text = ""]

\* the reset of the branches that announce a return to the wake word
ResetSession(st, pipeline_status) ==
    [ResetTask(st) EXCEPT !.wake_word_detected = FALSE,
                          !.voice_input = "",
                          !.current_step = "wake_word_detection",
                          !.pipeline_status = pipeline_status]

\* _response_generation_node
ResponseGeneration ==
    /\ node = "response_generation"
    /\ \E help_response \in Replies(Answers) :
        LET user_intent == state.user_intent
            response == IF user_intent = "coding"
                        THEN GenerateCodingResponse(state.generated_code, state.generated_todos)
                        ELSE IF user_intent = "explanation"
                        THEN GenerateExplanationResponse(state.code_explanation)
                        ELSE IF user_intent = "review"
                        THEN GenerateReviewResponse(state.code_review)
                        ELSE MsgTaskCompleted
            s0 == [state EXCEPT !.final_response = response,
                                !.current_step = "response_generation"]
            help_lower == Strip(Lower(help_response))
            asked == <<Enter, Say(response), Say(MsgAnythingElse), Hear(help_response)>>
            accepts == help_response # "" /\ AnyIn(HelpAcceptWords, help_lower)
            declines == help_response # "" /\ ~accepts /\ AnyIn(HelpDeclineWords, help_lower)
            st == IF accepts
                  THEN [ResetTask(s0) EXCEPT !.pipeline_status = "active",
                                             !.current_step = "intent_classification"]
                  ELSE IF declines
                  THEN ResetSession(s0, "completed")
                  ELSE ResetSession(s0, "active")
            said == asked \o <<Say(IF accepts THEN MsgNextTask
                                   ELSE IF help_response # "" THEN MsgSessionEnd
                                   ELSE MsgNothingHeard)>>
        IN  /\ heard' = help_response
            /\ state' = st
            /\ log' = IF accepts /\ log.tasks < MaxTasks
                      THEN [LogNode(log, said) EXCEPT !.tasks = @ + 1]
                      ELSE LogNode(log, said)
            /\ node' = ShouldContinueAfterResponseGeneration(st)
    /\ UNCHANGED <<pc, locals, process, agent_call>>

\* a session loop that invokes the workflow again on the state it returned
StartRunOnReturnedState ==
    /\ node = END
    /\ node' = "wake_word_detection"
    /\ log' = EmptyLog
    /\ UNCHANGED <<state, pc, locals, process, agent_call, heard>>

\* start_continuous_session: workflow.invoke returned, the loop builds a
\* fresh initial_state and invokes the workflow again
StartRun ==
    /\ node = END
    /\ state' = InitialState
    /\ node' = "wake_word_detection"
    /\ log' = EmptyLog
    /\ UNCHANGED <<pc, locals, process, agent_call, heard>>

\* start_continuous_session: an exception left workflow.invoke; the handler
\* is outside the while loop, so after its message the method returns and
\* the entry point ends the process
SessionError ==
    /\ node = Escaped
    /\ process.at = "session"
    /\ process' = [process EXCEPT !.at = "exited", !.exit_code = 0, !.diagnostic = "Restarting session..."]
    /\ UNCHANGED <<state, node, pc, locals, heard, log, agent_call>>

Next ==
    \/ WakeWordDetection
    \/ VoiceInput
    \/ SpeechToText
    \/ Confirmation
    \/ IntentClassification
    \/ TodoGeneration
    \/ CodeGenerationStart
    \/ LanguageChoice
    \/ LanguageConfirm
    \/ Discuss
    \/ DiscussChange
    \/ DiscussHelp
    \/ DiscussQuick
    \/ NextInstruction
    \/ TodoCompletionCheck
    \/ CodeReview
    \/ CodeExplanation
    \/ ResponseGeneration
    \/ StartRun
    \/ SessionError

Spec == Init /\ [][Next]_vars

(***************************************************************************)
(* run_pipeline: one invocation of the workflow on a session the caller    *)
(* hands in.                                                               *)
(***************************************************************************)
\* the sessions handed to run_pipeline: the default one, or one of an
\* earlier conversation that has iterations left
InitialStates ==
    {[InitialState EXCEPT !.iteration_count = n] : n \in 0..(InitialState.max_iterations - 1)}

PipelineInit ==
    /\ state \in InitialStates
    /\ node = "wake_word_detection"
    /\ pc = ""
    /\ current_todo = ""
    /\ language = ""
    /\ task_type = ""
    /\ todo_index = 0
    /\ todo_asked = {}
    /\ heard = ""
    /\ log = EmptyLog
    /\ process = Started
    /\ agent_call = NoCall

PipelineNext ==
    \/ WakeWordDetection
    \/ VoiceInput
    \/ SpeechToText
    \/ Confirmation
    \/ IntentClassification
    \/ TodoGeneration
    \/ CodeGenerationStart
    \/ LanguageChoice
    \/ LanguageConfirm
    \/ Discuss
    \/ DiscussChange
    \/ DiscussHelp
    \/ DiscussQuick
    \/ NextInstruction
    \/ TodoCompletionCheck
    \/ UserFeedback
    \/ CodeIteration
    \/ CodeReview
    \/ CodeExplanation
    \/ ResponseGeneration

PipelineSpec == PipelineInit /\ [][PipelineNext]_vars

(***************************************************************************)
(* _generate_and_save_code on its own: the request, the plan and the       *)
(* language are the arguments of the call                                  *)
(***************************************************************************)

\* languages outside the extensions table
OtherLanguages == {"klingon", "Python", ""}

\* requests the call is made for
SaveRequests ==
    TodoRequests \cup Requests
        \cup {"write a function, filename ../notes", "save the class under the file name report"}

\* the workflow state and the locals at the call of _generate_and_save_code
SaveInit ==
    /\ \E r \in SaveRequests :
          /\ state = [InitialState EXCEPT !.transcribed_text = r,
                                          !.generated_todos = GenerateTodosFromRequest(r),
                                          !.current_step = "code_generation"]
          /\ current_todo = GenerateTodosFromRequest(r)[1]
          /\ task_type = AnalyzeTaskType(r)
    /\ language \in LanguageKeys \cup OtherLanguages
    /\ node = "code_generation"
    /\ pc = "generate_and_save"
    /\ todo_index = 0
    /\ todo_asked = {}
    /\ heard = ""
    /\ log = EmptyLog
    /\ process = Started
    /\ agent_call = NoCall

\* the call of _generate_and_save_code
GenerateAndSave ==
    /\ node = "code_generation"
    /\ pc = "generate_and_save"
    /\ GenerateAndSaveCode(<<>>, current_todo, language, task_type)
    /\ UNCHANGED heard

\* the session goes on after a saved file: the user accepts more help and
\* makes a request, and _generate_and_save_code is called for its first todo
\* with the task fields reset; the history keeps the path written before
GenerateForNextTask ==
    /\ node = "code_generation"
    /\ pc = "next_instruction"
    /\ log.tasks + 1 < MaxTasks
    /\ \E r \in SaveRequests :
          /\ state' = [InitialState EXCEPT !.transcribed_text = r,
                                           !.generated_todos = GenerateTodosFromRequest(r),
                                           !.current_step = "code_generation"]
          /\ current_todo' = GenerateTodosFromRequest(r)[1]
          /\ task_type' = AnalyzeTaskType(r)
    /\ log' = [log EXCEPT !.tasks = @ + 1, !.pending = <<>>]
    /\ pc' = "generate_and_save"
    /\ UNCHANGED <<node, language, todo_index, todo_asked, heard, process, agent_call>>

SaveNext ==
    \/ GenerateAndSave
    \/ GenerateForNextTask

SaveSpec == SaveInit /\ [][SaveNext]_vars

(***************************************************************************)
(* The operations of the agents that create a temporary file.              *)
(***************************************************************************)

\* temporary files left behind before the calls stop
MaxTempFiles == 2

\* TTSPromptAgent.run, STTAgent._transcribe_audio_data and
\* CodeRabbitAgent._review_code_content
TempOperations == {"tts_run", "transcribe_audio_data", "review_code_content"}

\* the text, recording or code an operation is called with
TempInputs == Requests \cup Answers

TempInit ==
    /\ node \in TempOperations
    /\ pc = "call"
    /\ heard \in TempInputs
    /\ state = InitialState
    /\ current_todo = ""
    /\ language = ""
    /\ task_type = ""
    /\ todo_index = 0
    /\ todo_asked = {}
    /\ log = EmptyLog
    /\ process = Started
    /\ agent_call = NoCall

\* an operation returns; left tells whether its temporary file is still there
TempReturn(left) ==
    /\ pc' = "returned"
    /\ log' = [log EXCEPT !.temp_files = IF left THEN @ + 1 ELSE @]
    /\ UNCHANGED <<state, node, locals, process, agent_call, heard>>

\* TTSPromptAgent.run: the service call comes first; the file is created
\* and written, played and unlinked; any exception leads to the handler,
\* which does not unlink
TtsRun ==
    /\ node = "tts_run"
    /\ pc = "call"
    /\ \E service_ok \in BOOLEAN, write_ok \in BOOLEAN :
          TempReturn(service_ok /\ ~write_ok)

\* STTAgent._transcribe_audio_data: the file is created and written outside
\* of the inner try; the service call is inside it, with the unlink in its
\* finally clause
TranscribeAudioData ==
    /\ node = "transcribe_audio_data"
    /\ pc = "call"
    /\ \E write_ok \in BOOLEAN, service_ok \in BOOLEAN :
          TempReturn(~write_ok)

\* CodeRabbitAgent._review_code_content: the file is created and written,
\* _review_file returns a text whatever happens, then the unlink
ReviewCodeContent ==
    /\ node = "review_code_content"
    /\ pc = "call"
    /\ \E write_ok \in BOOLEAN, review_ok \in BOOLEAN :
          TempReturn(~write_ok)

\* the next call of one of the operations
TempCall ==
    /\ node \in TempOperations
    /\ pc = "returned"
    /\ log.temp_files < MaxTempFiles
    /\ pc' = "call"
    /\ node' \in TempOperations
    /\ heard' \in TempInputs
    /\ UNCHANGED <<state, locals, process, agent_call, log>>

TempNext ==
    \/ TtsRun
    \/ TranscribeAudioData
    \/ ReviewCodeContent
    \/ TempCall

TempSpec == TempInit /\ [][TempNext]_vars

(***************************************************************************)
(* The continuous session with a user who may press Ctrl+C once.           *)
(***************************************************************************)

\* ---- startup: from the entry point to the first session ----

StartupInit ==
    /\ state = InitialState
    /\ node = "wake_word_detection"
    /\ pc = ""
    /\ current_todo = ""
    /\ language = ""
    /\ task_type = ""
    /\ todo_index = 0
    /\ todo_asked = {}
    /\ heard = ""
    /\ log = EmptyLog
    /\ agent_call = NoCall
    /\ \E entry \in Entries, openai_key \in EnvValues, porcupine_key \in EnvValues :
          process = Launched(entry, openai_key, porcupine_key)

\* sys.exit(1) after a message, or the interpreter ending on an uncaught exception
Exit(diagnostic) ==
    process' = [process EXCEPT !.at = "exited", !.exit_code = 1, !.diagnostic = diagnostic]

\* main() of main_langgraph.py and PairProgrammingOrchestrator.__init__ up to
\* the first constructor; langgraph_pipeline.main only installs its handler
CheckCredentials ==
    /\ process.at = "start"
    /\ IF process.entry \in VerifyingEntries /\ MissingKey(process.OPENAI_API_KEY)
       THEN Exit(MsgNoApiKey)
       ELSE process' = [process EXCEPT !.at = "construct"]
    /\ UNCHANGED <<state, node, pc, locals, heard, log, agent_call>>

\* one constructor call of LangGraphVoicePipeline.__init__ or of
\* PairProgrammingOrchestrator.__init__
ConstructAgent ==
    /\ process.at = "construct"
    /\ Len(process.agents) < Len(AgentsOf(process.entry))
    /\ LET agent == AgentsOf(process.entry)[Len(process.agents) + 1]
       IN  IF agent \in OpenAIClientAgents /\ process.OPENAI_API_KEY = Unset
           THEN Exit(MsgOpenAIError)
           ELSE process' = [process EXCEPT
                               !.agents = Append(@, agent),
                               !.wake_word_enabled =
                                   IF agent = "STTAgent"
                                   THEN InitializePorcupine(process.PORCUPINE_ACCESS_KEY)
                                   ELSE @]
    /\ UNCHANGED <<state, node, pc, locals, heard, log, agent_call>>

\* the entry point calls start_continuous_session / start_voice_session
StartSession ==
    /\ process.at = "construct"
    /\ process.agents = AgentsOf(process.entry)
    /\ process' = [process EXCEPT !.at = "session"]
    /\ UNCHANGED <<state, node, pc, locals, heard, log, agent_call>>

StartupNext == CheckCredentials \/ ConstructAgent \/ StartSession

StartupSpec == StartupInit /\ [][StartupNext]_vars

\* the process from its launch into the runs of the continuous session: the
\* entry points of the pipeline run the workflow again and again
SessionWakeWord ==
    /\ process.entry # "PairProgrammingOrchestrator.__init__"
    /\ WakeWordDetection

ActivationNext ==
    \/ CheckCredentials
    \/ ConstructAgent
    \/ StartSession
    \/ SessionWakeWord
    \/ StartRun

\* the loop of start_continuous_session never waits: the process always
\* takes its next step
ActivationSpec == StartupInit /\ [][ActivationNext]_vars /\ WF_vars(ActivationNext)


\* ---- IntentAgent.run as one call ----

IntentInit ==
    /\ state = InitialState
    /\ node = "IntentAgent.run"
    /\ pc = "call"
    /\ current_todo = ""
    /\ language = ""
    /\ task_type = ""
    /\ todo_index = 0
    /\ todo_asked = {}
    /\ heard \in IntentInputs
    /\ log = EmptyLog
    /\ process = Started
    /\ \E answer \in ServiceAnswers : agent_call = [NoCall EXCEPT !.service = answer]

\* run(input_data) from the call to the return
IntentRun ==
    /\ node = "IntentAgent.run"
    /\ pc = "call"
    /\ LET returned == IntentAgentRun(heard, agent_call.service)
       IN  agent_call' = [agent_call EXCEPT !.value = returned.value,
                                            !.completions = returned.completions]
    /\ pc' = "returned"
    /\ UNCHANGED <<state, node, locals, heard, log, process>>

IntentNext == IntentRun

IntentSpec == IntentInit /\ [][IntentNext]_vars


\* ---- the intent_classification node on a confirmed request ----

\* requests with keywords of one, several or none of the three lists
ClassifyRequests ==
    Requests \cup
    {"explain and review my code", "Check what this function does", "explain how to create a function",
     "What is a class", "hello", "tell me a joke", "Look At my program", "describe the build",
     "make it faster", "sort a list", "WHY", "analyze", "preview the page", "somehow build it",
     "generate a checklist"}

\* the state the confirmation node hands over for a request, and the state
\* response_generation hands over for the next task
ClassifyStates ==
    {[InitialState EXCEPT !.wake_word_detected = TRUE,
                          !.voice_input = r,
                          !.transcribed_text = r,
                          !.confirmation_spoken = TRUE,
                          !.user_confirmed = TRUE,
                          !.confirmation_status = "confirmed",
                          !.current_step = "confirmation"] : r \in ClassifyRequests}
        \cup {[InitialState EXCEPT !.wake_word_detected = TRUE,
                                   !.voice_input = r,
                                   !.current_step = "response_generation"] : r \in Requests}

ClassifyInit ==
    /\ state \in ClassifyStates
    /\ node = "intent_classification"
    /\ pc = ""
    /\ current_todo = ""
    /\ language = ""
    /\ task_type = ""
    /\ todo_index = 0
    /\ todo_asked = {}
    /\ heard \in IF state.transcribed_text = "" THEN AcceptReplies ELSE Replies(Answers)
    /\ log = EmptyLog
    /\ process = Started
    /\ agent_call = NoCall

ClassifyNext == IntentClassification

ClassifySpec == ClassifyInit /\ [][ClassifyNext]_vars

\* the classified request goes on to ExplainCode and RespondAndOfferMore
ExplainNext ==
    \/ IntentClassification
    \/ CodeExplanation
    \/ ResponseGeneration

ExplainSpec == ClassifyInit /\ [][ExplainNext]_vars

(***************************************************************************)
(* The capture of a reply: the user speaks or stays silent, the recording  *)
(* is sent to the transcription service, and the node acts on the text     *)
(* auto_record_speech returns.                                             *)
(***************************************************************************)

\* STTAgent.auto_record_speech with _transcribe_audio_data: no speech within
\* the timeout returns the empty text; a recording is sent to the service
\* and its stripped transcript returned; every exception, a failure of the
\* service among them, is caught and returns the empty text
AutoRecordSpeech(spoken, service) ==
    LET transcribe_audio_data ==
            IF service.outcome = "text" THEN Strip(service.text) ELSE ""
    IN  IF spoken = "" THEN "" ELSE transcribe_audio_data

\* the transcription service returns the words spoken or fails
Transcriptions(spoken) ==
    {[outcome |-> "text", text |-> spoken], [outcome |-> "raises", text |-> ""]}

\* a request has been transcribed and Confirm is entered; the user will
\* answer the question with spoken (nothing, when silent)
ConfirmInit ==
    /\ \E r \in Requests :
          state = [InitialState EXCEPT !.wake_word_detected = TRUE,
                                       !.voice_input = r,
                                       !.transcribed_text = r,
                                       !.current_step = "speech_to_text"]
    /\ node = "confirmation"
    /\ pc = ""
    /\ current_todo = ""
    /\ language = ""
    /\ task_type = ""
    /\ todo_index = 0
    /\ todo_asked = {}
    /\ heard = ""
    /\ log = EmptyLog
    /\ process = Started
    /\ \E spoken \in Replies(Answers) : \E service \in Transcriptions(spoken) :
          agent_call = [NoCall EXCEPT !.spoken = spoken, !.service = service]

\* _confirmation_node with the reply captured by auto_record_speech
ConfirmationCapture ==
    /\ node = "confirmation"
    /\ state.current_step = "speech_to_text"
    /\ LET confirmation_response == AutoRecordSpeech(agent_call.spoken, agent_call.service)
       IN  /\ ConfirmationWith(confirmation_response)
           /\ agent_call' = [agent_call EXCEPT
                  !.value = PyStr(confirmation_response),
                  !.completions = IF agent_call.spoken = "" THEN 0 ELSE 1]
    /\ UNCHANGED <<pc, locals, process>>

ConfirmNext == ConfirmationCapture

ConfirmSpec == ConfirmInit /\ [][ConfirmNext]_vars


\* the session was left by KeyboardInterrupt or by the sys.exit of the
\* SIGINT handler
Interrupted == "INTERRUPTED"

\* the node about to run hands a text to the synthesizer, which plays it
\* in _play_audio
PlaysAudio ==
    \/ node \in {"todo_generation", "code_review", "todo_completion_check", "response_generation"}
    \/ node = "confirmation" /\ state.transcribed_text # ""

\* Ctrl+C with the handler of main() of langgraph_pipeline.py installed
\* (sys.exit), or KeyboardInterrupt raised outside of _play_audio: it is
\* caught by no node and start_continuous_session returns; nothing of the
\* session is left
InterruptEndsSession ==
    /\ node \notin {Escaped, Interrupted}
    /\ ~log.interrupted
    /\ node' = Interrupted
    /\ log' = [EmptyLog EXCEPT !.interrupted = TRUE]
    /\ state' = InitialState
    /\ pc' = ""
    /\ current_todo' = ""
    /\ language' = ""
    /\ task_type' = ""
    /\ todo_index' = 0
    /\ todo_asked' = {}
    /\ UNCHANGED <<process, agent_call>>
    /\ heard' = ""

\* Ctrl+C under main_langgraph.py, which installs no handler, while
\* _play_audio waits for the playback: the KeyboardInterrupt is caught in
\* _play_audio, the playback is stopped and the call returns to the node
InterruptDuringPlayback ==
    /\ PlaysAudio
    /\ ~log.interrupted
    /\ log' = [log EXCEPT !.interrupted = TRUE]
    /\ UNCHANGED <<state, node, pc, locals, process, agent_call, heard>>

InterruptNext ==
    \/ Next
    \/ InterruptEndsSession
    \/ InterruptDuringPlayback

InterruptSpec == Init /\ [][InterruptNext]_vars

(***************************************************************************)
(* Properties.                                                             *)
(***************************************************************************)

\* C1: without user input no cycle of states keeps repeating: no node is
\* executed a second time in the same session state unless an utterance
\* was captured in between
NoCycleWithoutUtterance ==
    ~log.cycle

\* C2: at response_generation, silence or a reply that matches neither the
\* accept nor the decline words ends the run, intent_classification is not
\* entered
UnansweredOfferEndsRun ==
    [][(/\ node = "response_generation"
        /\ \/ heard' = ""
           \/ /\ ~AnyIn(HelpAcceptWords, Strip(Lower(heard')))
              /\ ~AnyIn(HelpDeclineWords, Strip(Lower(heard'))))
       => node' = END]_vars

ConfirmationKeywords ==
    [][node = "confirmation" =>
        /\ Strip(Lower(heard')) \in {"yes", "correct", "yeah"}
            => /\ state'.confirmation_status = "confirmed"
               /\ state'.user_confirmed
               /\ node' = "intent_classification"
        /\ Strip(Lower(heard')) \in {"no", "wrong"}
            => /\ state'.confirmation_status = "re_record"
               /\ ~state'.user_confirmed
               /\ node' = "voice_input"]_vars

\* C5 witness: the request was confirmed with yeah
ConfirmedWithYeah ==
    /\ node = "intent_classification"
    /\ heard = "yeah"
    /\ state.confirmation_status = "confirmed"

\* C6 as claimed: at confirmation, a reply that matches neither the affirm
\* nor the deny words is followed by a re-ask or by the default
\* confirmation, never by a return to voice_input
UnmatchedConfirmationNeverReRecords ==
    [][(/\ node = "confirmation"
        /\ heard' # ""
        /\ ~AnyIn(ConfirmWords, Strip(Lower(heard')))
        /\ ~AnyIn({"no", "wrong"}, Strip(Lower(heard'))))
       => node' \in {"confirmation", "intent_classification"}]_vars

\* C6 as amended: at confirmation, every reply that contains no affirm word
\* is taken for a rejection: the apology is spoken, the status is re_record
\* and the workflow goes back to voice_input
UnmatchedConfirmationReRecords ==
    [][(/\ node = "confirmation"
        /\ heard' # ""
        /\ ~AnyIn(ConfirmWords, Strip(Lower(heard'))))
       => /\ state'.confirmation_status = "re_record"
          /\ ~state'.user_confirmed
          /\ log'.pending = <<SorryMsg>>
          /\ node' = "voice_input"]_vars

\* C6 witness: an unrelated reply sent the workflow back to voice_input
ReRecordAfterUnrelatedReply ==
    /\ node = "voice_input"
    /\ heard = "maybe"
    /\ state.confirmation_status = "re_record"

\* C7: at confirmation, silence confirms the request, leaves the stored
\* utterance as it is and leads to intent_classification
SilenceConfirms ==
    [][(/\ node = "confirmation"
        /\ state.transcribed_text # ""
        /\ heard' = "")
       => /\ state'.confirmation_status = "confirmed"
          /\ state'.user_confirmed
          /\ state'.transcribed_text = state.transcribed_text
          /\ state'.voice_input = state.voice_input
          /\ node' = "intent_classification"]_vars

\* C7 witness: the request was confirmed by silence
ConfirmedBySilence ==
    /\ node = "intent_classification"
    /\ heard = ""
    /\ state.confirmation_status = "confirmed"
    /\ state.transcribed_text # ""
    /\ log.pending = <<MsgAssumeConfirmed>>

\* C8: a text is not spoken a second time when no utterance was captured
\* since it was spoken
NoRepeatedPromptWithoutUtterance ==
    ~log.dupFresh

\* C9: no node hands the same text to the synthesizer twice, so no text is
\* spoken twice in a run
NoTextSpokenTwice ==
    ~log.dup

\* C10: after the request to say yes or no in the language selection a yes
\* keeps the chosen language and starts the discussion, and when the
\* discussion loop goes round to wait for the next reply at most one
\* question has been spoken since the last capture
ReplyAnswersLastQuestion ==
    [][/\ (/\ node = "code_generation"
           /\ pc = "language_choice"
           /\ log.pending = <<MsgLanguageClarify>>
           /\ AnyIn(LanguageYesWords, Strip(Lower(heard'))))
          => pc' = "discuss" /\ language' = language
       /\ (/\ node = "code_generation"
           /\ pc \in {"discuss", "discuss_change", "discuss_help", "discuss_quick"}
           /\ node' = "code_generation"
           /\ pc' = "discuss")
          => Cardinality({i \in 1..Len(log'.pending) :
                 SubSeq(log'.pending[i], Len(log'.pending[i]), Len(log'.pending[i])) = "?"}) <= 1]_vars

TaskEndsAfterLastTodo ==
    [][node = "todo_completion_check"
       => /\ node' = "response_generation"
             => state'.current_todo_index = Len(state'.generated_todos)
          /\ state.current_todo_index < Len(state.generated_todos)
             => node' = "code_generation"]_vars

\* C16: the decomposition of a request, the empty one included, has at
\* least one todo, and code_generation is not entered with an empty todo
\* list
TodosNeverEmpty ==
    /\ \A todos \in TodoLists : Len(todos) >= 1
    /\ node = "code_generation" => state.generated_todos # <<>>

\* C16 witness: todo_generation has handed a plan to code_generation and
\* each branch of the decomposition gave a list of its own
PlanHandedToCodeGeneration ==
    /\ node = "code_generation"
    /\ pc = ""
    /\ state.current_step = "todo_generation"
    /\ state.generated_todos = GenerateTodosFromRequest(state.transcribed_text)
    /\ Cardinality(TodoLists) = 7

\* C17: a file saved for a language of the extension table has code in it
\* and a path that ends in the table's extension for that language, py
\* for python and js for javascript; for a language outside the table the
\* path ends in txt
SavedWithLanguageExtension ==
    pc = "next_instruction"
    => LET path == state.code_file_path
           extension == IF language = "python" THEN "py"
                        ELSE IF language = "javascript" THEN "js"
                        ELSE IF language \in LanguageKeys THEN GetFileExtension(language)
                        ELSE "txt"
           suffix == "." \o extension
       IN  /\ state.generated_code # ""
           /\ Len(path) > Len(suffix)
           /\ SubSeq(path, Len(path) - Len(suffix) + 1, Len(path)) = suffix

\* C17 witness: a file was saved for a language outside the table, and
\* its path ends in txt
SavedAsTxt ==
    /\ pc = "next_instruction"
    /\ language = "klingon"
    /\ state.generated_code # ""
    /\ SubSeq(state.code_file_path, Len(state.code_file_path) - 3, Len(state.code_file_path)) = ".txt"

\* the three outcomes of the reviewer the node is to tell apart
ReviewOutcomes == {"completed", "rate_limited", "timeout"}

\* C18: the review node speaks a different message and leaves a different
\* pipeline_status for each of the outcomes completed, rate_limited and
\* timeout of the reviewer
ReviewOutcomesToldApart ==
    [][\A a \in ReviewOutcomes, b \in ReviewOutcomes :
          (a # b /\ CodeReviewWith(a))
          => /\ ReviewSpoken(a) # ReviewSpoken(b)
             /\ state'.pipeline_status # ReviewedState(state, b).pipeline_status]_vars

\* C19: when the reviewer returns rate_limited, pipeline_status becomes
\* rate_limited and the node speaks the rate-limit message of prompts.py,
\* which is not what it speaks when the reviewer returns error
RateLimitReported ==
    [][CodeReviewWith("rate_limited")
       => /\ state'.pipeline_status = "rate_limited"
          /\ log'.pending # <<>>
          /\ log'.pending[Len(log'.pending)] = CODERABBIT_RATE_LIMIT_MESSAGE
          /\ ReviewSpoken("rate_limited") # ReviewSpoken("error")]_vars

\* C20: an exception raised by a call inside a node is caught by that node:
\* the node has returned to the graph, which goes on to the node its router
\* names, with the text of the exception in error_message and
\* pipeline_status = "error"
ExceptionCaughtInNode ==
    log.raised # ""
    => /\ state.error_message = log.raised
       /\ state.pipeline_status = "error"
       /\ pc = ""
       /\ node \in {"todo_completion_check", "user_feedback", "response_generation", "code_explanation"}

\* C20 witness: the write of the code file failed in code_generation and
\* the workflow is at the next node
WriteFailureCaught ==
    /\ log.raised = WriteError
    /\ node = "todo_completion_check"
    /\ state.error_message = WriteError
    /\ state.generated_code = ""

\* the nodes that work on the task of a request
TaskHandlerNodes ==
    {"todo_generation", "code_generation", "code_review", "code_explanation",
     "user_feedback", "code_iteration", "todo_completion_check"}

\* the texts that report a success
IsSuccessMessage(text) ==
    \/ text = MsgAllTodosDone
    \/ IsSub("I've created the", text)
    \/ IsSub("I've generated the code", text)

\* C21: while pipeline_status is "error" no task-handler node is executed
\* and no step speaks a success message
ErrorLeadsToFallback ==
    [][state.pipeline_status = "error"
       => /\ node \notin TaskHandlerNodes
          /\ \A i \in 1..Len(log'.pending) :
                IsSuccessMessage(log'.pending[i])
                => i <= Len(log.pending) /\ log.pending[i] = log'.pending[i]]_vars

\* C22: when a run is over and a node of it had recorded an error, a
\* message was spoken after the error
ErrorIsFollowedBySpeech ==
    node \in {END, Escaped} => ~log.unspoken

\* C23: once the user has pressed Ctrl+C the session is over: no node goes
\* on and nothing is spoken any more
InterruptStopsSession ==
    [][~log.interrupted]_vars

\* C24: when an operation that created a temporary file has returned, by
\* whatever path, no temporary file is left
TempFilesDeleted ==
    (node \in TempOperations /\ pc = "returned") => log.temp_files = 0

UsableCompletion(answer) ==
    /\ answer.outcome = "text"
    /\ LET parsed == JsonLoads(Strip(answer.text))
       IN  /\ parsed.ok
           /\ parsed.value.kind = "dict"
           /\ RequiredFields \subseteq DOMAIN parsed.value.items

\* C26: whatever the completion service answers, IntentAgent.run returns a
\* dict with the keys intent, confidence, action and message; for an exit
\* phrase the intent is "exit" and no completion was requested; when the
\* completion is not a JSON object with the required keys the intent is
\* "discussion" with a confidence of at most 0.5
IntentRunReturnsClassification ==
    (node = "IntentAgent.run" /\ pc = "returned") =>
        LET value == agent_call.value
        IN  /\ value.kind = "dict"
            /\ RequiredFields \subseteq DOMAIN value.items
            /\ IsExitIntent(heard) =>
                  /\ value.items.intent = PyStr("exit")
                  /\ agent_call.completions = 0
            /\ (~IsExitIntent(heard) /\ ~UsableCompletion(agent_call.service)) =>
                  /\ value.items.intent = PyStr("discussion")
                  /\ value.items.confidence.value <= 50

\* C26 witness: run has returned the fallback for a completion without the
\* key message
FallbackForMissingKey ==
    /\ node = "IntentAgent.run"
    /\ pc = "returned"
    /\ heard = "review my code"
    /\ agent_call.service.text = "{\"intent\": \"discussion\", \"confidence\": 0.8, \"action\": \"discuss\"}"
    /\ agent_call.value = GptFallback

\* C27: when the intent_classification node classifies a request, the intent
\* is "review" if the request holds a review keyword, else "explanation" if
\* it holds an explanation keyword, else "coding"; the run goes on in
\* todo_generation for coding, in code_review for review and in
\* code_explanation for everything else
IntentClassifiedAndRouted ==
    [][node = "intent_classification" =>
          LET text == Lower(state'.transcribed_text)
              intent == state'.user_intent
          IN  /\ state'.current_step = "intent_classification" =>
                    /\ intent \in {"coding", "review", "explanation"}
                    /\ intent = "review" <=> AnyIn(ReviewWords, text)
                    /\ intent = "explanation" <=>
                          (~AnyIn(ReviewWords, text) /\ AnyIn(ExplanationWords, text))
              /\ node' = CASE intent = "coding" -> "todo_generation"
                           [] intent = "review" -> "code_review"
                           [] OTHER -> "code_explanation"]_vars

\* C27 witness: a request with an explanation and a review keyword has been
\* classified as review and routed to the review node
ReviewBeforeExplanation ==
    /\ state.transcribed_text = "explain and review my code"
    /\ state.current_step = "intent_classification"
    /\ state.user_intent = "review"
    /\ node = "code_review"

\* C28: when code has been generated in Python for the confirmed request
\* "create a function to print hello world", the intent is coding, the code
\* defines a function that prints "Hello, World!" and the file path ends
\* in .py
HelloWorldInPython ==
    (/\ node = "code_generation"
     /\ pc = "next_instruction"
     /\ language = "python"
     /\ state.transcribed_text = "create a function to print hello world"
     /\ state.user_confirmed) =>
        /\ state.user_intent = "coding"
        /\ IsSub("def print_hello_world():\n", state.generated_code)
        /\ IsSub("    print(\"Hello, World!\")\n", state.generated_code)
        /\ Len(state.code_file_path) > 3
        /\ SubSeq(state.code_file_path, Len(state.code_file_path) - 2, Len(state.code_file_path)) = ".py"

\* C28 witness: the code of the hello-world request has been written to
\* hello_world.py
HelloWorldSaved ==
    /\ node = "code_generation"
    /\ pc = "next_instruction"
    /\ language = "python"
    /\ state.transcribed_text = "create a function to print hello world"
    /\ state.user_confirmed
    /\ state.code_file_path = "hello_world.py"
    /\ state.generated_code # ""

\* C29: whenever a workflow run of the continuous session has ended, by its
\* END edge or by an exception that left the workflow, the next step of the
\* session is a new run that waits for the wake word on a fresh state, and
\* the process keeps running
SessionRestartsAfterRun ==
    [][(node = END \/ node = Escaped) =>
          (/\ node' = "wake_word_detection"
           /\ state' = InitialState
           /\ process'.at = "session")]_vars

\* C30: a generated file is written under one of the names derived from the
\* content of the request, followed by the extension of the language in use;
\* no word of the request becomes the name
SavedUnderContentName ==
    (node = "code_generation" /\ pc = "next_instruction") =>
        \E name \in ContentNames : state.code_file_path = name \o "." \o GetFileExtension(language)

\* C31: when the confirmation node asks its question, the text it asks about
\* is the transcription of what the latest execution of voice_input captured,
\* never an utterance of an earlier turn
ConfirmAsksLatestUtterance ==
    (node = "confirmation" /\ state.transcribed_text # "" /\ ~state.confirmation_spoken) =>
        state.transcribed_text = SttRun(log.captured)

\* C32: at Confirm, a reply that was spoken but whose transcription failed
\* is not taken for silence: it does not leave the request confirmed
SpokenReplyNotDefaulted ==
    (state.current_step = "confirmation" /\ agent_call.spoken # ""
        /\ agent_call.service.outcome = "raises")
        => state.confirmation_status # "confirmed"

\* C33: in continuous help (ClassifyIntent entered with no stored utterance)
\* a prompt that gets no reply ends the run at once: no task-handler node
\* runs and no further question is asked
NoNewRequestEndsRun ==
    [][(node = "intent_classification" /\ state.transcribed_text = "" /\ heard' = "")
          => node' = END]_vars

\* C34: in the discussion loop code is generated and saved only after an
\* affirmative reply, or after no reply to the discussion prompt and none to
\* the follow-up "are you still there?"; after any other reply the state
\* keeps its code and the loop waits at a further prompt
CodeOnlyAfterConsent ==
    [][(node = "code_generation"
          /\ pc \in {"discuss", "discuss_quick", "discuss_change", "discuss_help"})
       => LET reply == Strip(Lower(heard'))
              affirmative == \/ pc = "discuss" /\ AnyIn(DiscussYesWords, reply)
                             \/ pc = "discuss_quick" /\ AnyIn(QuickYesWords, reply)
              silent_twice == pc = "discuss_quick" /\ heard = "" /\ heard' = ""
          IN  /\ pc = "discuss_quick" => heard = ""
              /\ ~(affirmative \/ silent_twice)
                    => /\ state' = state
                       /\ pc' \in {"discuss", "discuss_quick", "discuss_change", "discuss_help"}
                       /\ log'.pending # <<>>]_vars

\* C34 witness: the code was saved after "Yes" to the discussion prompt
CodeSavedAfterYes ==
    /\ node = "code_generation"
    /\ pc = "next_instruction"
    /\ heard = "Yes"
    /\ state.generated_code # ""
    /\ state.code_file_path # ""

\* C35: a change request in answer to "Ready for the next task?" starts the
\* discussion of the todo again: the engine waits at a prompt of the
\* discussion loop instead of moving on
ChangeRequestReopensDiscussion ==
    [][(node = "code_generation" /\ pc = "next_instruction"
          /\ ~AnyIn(NextYesWords, Strip(Lower(heard')))
          /\ AnyIn(NextChangeWords, Strip(Lower(heard'))))
       => (node' = "code_generation" /\ pc' \in {"discuss", "discuss_change"}
              /\ log'.pending # <<>>)]_vars

\* C36: a code generation never writes to the path the generation before it
\* in the session wrote to, so no generated file is overwritten
GeneratedFileNotOverwritten ==
    [][(node = "code_generation" /\ pc = "generate_and_save" /\ pc' = "next_instruction"
          /\ log.wrote # "")
       => log'.wrote # log.wrote]_vars

\* C37: when RespondAndOfferMore is entered after ExplainCode for an
\* explanation request, the state holds a non-empty explanation, which the
\* response then contains
ExplanationStored ==
    (node = "response_generation" /\ state.user_intent = "explanation"
        /\ state.current_step = "code_explanation")
        => /\ state.code_explanation # ""
           /\ IsSub(state.code_explanation, GenerateExplanationResponse(state.code_explanation))

\* C38: when the session runs with wake-word detection disabled, the engine
\* still comes to CaptureVoice: the runs do not all end at the wake-word step
ManualActivationReachesCapture ==
    (process.at = "session" /\ process.entry # "PairProgrammingOrchestrator.__init__"
        /\ ~process.wake_word_enabled)
        ~> (node = "voice_input")

\* C39: whenever a workflow run has reached END, pipeline_status is
\* "completed" or "error", never "active"
EndStatusNotActive ==
    node = END => state.pipeline_status \in {"completed", "error"}

\* C39 witness: a run has reached END after the user declined more help
EndAfterDecline ==
    /\ node = END
    /\ heard = "no"
    /\ state.pipeline_status = "completed"

\* C40: for every language of the extension table, the text saved under the
\* language's extension is not the output of the Python generator unless
\* the extension is "py"
SourceMatchesExtension ==
    (node = "code_generation" /\ pc = "next_instruction" /\ language \in LanguageKeys)
        => (state.generated_code
                = GeneratePythonCode(state.transcribed_text, state.generated_todos, task_type)
            => GetFileExtension(language) = "py")

====
